---- MODULE Spec2Model ----
(***************************************************************************)
(* A model of sas9api.py, the client of the SAS9API REST proxy.            *)
(*                                                                         *)
(* Every endpoint function builds an endpoint path and a query-parameter   *)
(* dict, joins the path to the base URL with assemble_url and hands the    *)
(* request to make_request, which calls requests.request once and unwraps  *)
(* the response.                                                           *)
(*                                                                         *)
(* Python strings are sequences of tokens (<<"sas", "/", "cmd">> is        *)
(* 'sas/cmd', <<>> is ''), so that formatting and joining are             *)
(* concatenations whose result can be inspected.  Python values are tagged *)
(* records, so that None, '', 0 and False stay distinct.                   *)
(***************************************************************************)
EXTENDS Integers, Sequences, FiniteSets, TLC

VARIABLES
    pc,        \* pc[c]: "idle", "waiting" (inside requests.request) or "done"
    call,      \* call[c]: the endpoint function running for caller c and its arguments
    frame,     \* frame[c]: the arguments make_request was called with
    trace,     \* trace[c]: what the invocation has printed and sent, in order
    response,  \* response[c]: what requests.request produced
    result,    \* result[c]: how the invocation ended (value returned or exception raised)
    defaults,  \* the default objects of make_request's signature, shared by all calls
    join       \* a stand-alone application of assemble_url

vars == <<pc, call, frame, trace, response, result, defaults, join>>

callVars == <<pc, call, frame, trace, response, result, defaults>>

----------------------------------------------------------------------------
(* Python values *)

None == [t |-> "None"]

PyStr(s) == [t |-> "str", s |-> s]

PyInt(i) == [t |-> "int", i |-> i]

PyBool(b) == [t |-> "bool", b |-> b]

PyDict(d) == [t |-> "dict", d |-> d]

PyList(l) == [t |-> "list", l |-> l]

\* {} / dict()
EmptyDict == [k \in {} |-> None]

\* d[k] = v
SetItem(d, k, v) == [x \in (DOMAIN d) \cup {k} |-> IF x = k THEN v ELSE d[x]]

\* f"{v}" for the values the endpoint functions format into a path
Format(v) ==
    CASE v.t = "str" -> v.s
      [] v.t = "int" -> <<ToString(v.i)>>
      [] v.t = "None" -> <<"None">>

\* str(v), the text the HTTP library writes into the query string for value v
Str(v) ==
    CASE v.t = "str" -> v.s
      [] v.t = "int" -> <<ToString(v.i)>>
      [] v.t = "bool" -> IF v.b THEN <<"True">> ELSE <<"False">>
      [] v.t = "None" -> <<"None">>

Range(s) == {s[i] : i \in DOMAIN s}

----------------------------------------------------------------------------
(* Bounds and input sets *)

\* longest base URL, in tokens, that the stand-alone assemble_url is applied to
MaxUrlLen == 3

Callers == {1, 2}

\* the callers that issue calls under Spec
SeqCallers == {1}

Stem == <<"http://host/api">>

\* base URLs the endpoint functions are called with
Urls == {Stem, Stem \o <<"/">>}

UrlAlphabet == {"http://host/api", "/", " "}

\* every base URL of at most MaxUrlLen tokens
AnyUrls == UNION {[1..n -> UrlAlphabet] : n \in 0..MaxUrlLen}

Booleans == {TRUE, FALSE}

RepositoryNames == {PyStr(<<"Foundation">>), PyStr(<<"Custom">>)}

ServerNames == {None, PyStr(<<>>), PyStr(<<"SASApp">>)}

ServerUrls == {None, PyStr(<<>>), PyStr(<<"sas.host">>)}

ServerPorts == {None, PyInt(0), PyInt(8591)}

LibraryNames == {PyStr(<<"SASHELP">>)}

DatasetNames == {PyStr(<<"CLASS">>)}

Commands == {PyStr(<<"proc print;">>)}

\* the defaults that the signature of retrieve_data gives limit and offset
RetrieveDefaults == [limit |-> PyInt(100), offset |-> PyInt(0)]

\* (limit, offset) pairs: the defaults, and a limit above the documented maximum
Windows == {<<RetrieveDefaults.limit, RetrieveDefaults.offset>>, <<PyInt(20000), PyInt(5)>>}

Filters == {None, PyStr(<<"{\"AMOUNT\":-2000}">>)}

ByKeys == {None, PyStr(<<"NAME">>)}

Record1 == PyDict([k \in {"NAME"} |-> PyStr(<<"Alfred">>)])

JsonData == {PyList(<<>>), PyList(<<Record1>>)}

Locations == {PyStr(<<"/a">>), PyStr(<<"/b">>)}

ObjectNames == {PyStr(<<"x">>)}

PublicTypes == {PyStr(<<"Table">>), PyStr(<<"Report">>)}

\* names for the functions in which the name is a required argument
GivenServerNames == {PyStr(<<"SASApp">>)}

UserNames == {PyStr(<<"sasdemo">>)}

GroupNames == {PyStr(<<"SASUSERS">>)}

RoleNames == {PyStr(<<"Job Execution">>)}

Engines == {PyStr(<<"BASE">>)}

DisplayNames == {PyStr(<<"My library">>)}

LibraryPaths == {PyStr(<<"/data/lib">>)}

\* most search criteria that one call of find_object is given
MaxCriteria == 1

\* the search criteria of find_object whose default is None
Criteria ==
    {"location", "object_id", "object_type", "public_type", "name_equals",
     "name_starts", "name_contains", "name_regex", "description_contains",
     "description_regex", "created_gt", "created_lt", "modified_gt", "modified_lt",
     "table_libref", "table_dbms"}

\* the value a given criterion is called with
CriterionValue(k) == PyStr(<<k, "-value">>)

\* the criteria of a call: at most MaxCriteria of them given, the others None
CriteriaChoices ==
    {[k \in Criteria |-> IF k \in g THEN CriterionValue(k) ELSE None] :
        g \in {x \in SUBSET Criteria : Cardinality(x) <= MaxCriteria}}

\* (location_recursive, include_associations, include_permissions): the defaults, and
\* each flag the other way
SearchFlags == {<<PyBool(TRUE), PyBool(FALSE), PyBool(FALSE)>>,
                <<PyBool(FALSE), PyBool(TRUE), PyBool(TRUE)>>}

----------------------------------------------------------------------------
(* assemble_url *)

IsSpace(ch) == ch = " "

\* str.strip(): leading and trailing whitespace removed
RECURSIVE LStrip(_)
LStrip(s) == IF s # <<>> /\ IsSpace(Head(s)) THEN LStrip(Tail(s)) ELSE s

RECURSIVE RStrip(_)
RStrip(s) ==
    IF s # <<>> /\ IsSpace(s[Len(s)]) THEN RStrip(SubSeq(s, 1, Len(s) - 1)) ELSE s

Strip(s) == RStrip(LStrip(s))

\* str.endswith("/")
EndsWithSlash(s) == s # <<>> /\ s[Len(s)] = "/"

assemble_url(url, endpoint) ==
    IF EndsWithSlash(Strip(url))
    THEN url \o endpoint
    ELSE url \o <<"/">> \o endpoint

----------------------------------------------------------------------------
(* make_request *)

\* the dict and the list that the def statement of make_request evaluates once
\* as the defaults of initial_params and json_data
InitialDefaults == [initial_params |-> EmptyDict, json_data |-> PyList(<<>>)]

\* the keyword arguments of make_request that a caller leaves out
MakeRequestDefaults ==
    [initial_params |-> defaults.initial_params, data |-> PyStr(<<>>),
     json_data |-> defaults.json_data, only_payload |-> FALSE]

\* make_request(method, url, initial_params=..., data=..., json_data=..., only_payload=...)
MakeRequestCall(method, url, initial_params, data, json_data, only_payload) ==
    [method |-> method, url |-> url, initial_params |-> initial_params,
     data |-> data, json_data |-> json_data, only_payload |-> only_payload]

\* the request handed to requests.request
requests_request(f) ==
    [method |-> f.method, url |-> f.url, params |-> f.initial_params,
     data |-> f.data, json |-> f.json_data]

\* the query string requests.request builds from params: a key whose value is None
\* is left out, every other value is written as its text
PreparedParams(params) ==
    [k \in {x \in DOMAIN params : params[x] # None} |-> Str(params[k])]

PrintEvent(text, arg) == [ev |-> "print", text |-> text, arg |-> arg]

RequestEvent(req) == [ev |-> "request", req |-> req]

Notice ==
    PrintEvent("The default Server Name from the configuration file will be used", None)

\* Response.raise_for_status(): HTTPError for a 4xx or 5xx status
raise_for_status(status) == 400 <= status /\ status < 600

\* Response.json(): the decoded body, or an exception when the body is not JSON
ResponseJson(body) ==
    IF body.json
    THEN [raised |-> FALSE, value |-> body.value]
    ELSE [raised |-> TRUE, exc |-> "JSONDecodeError"]

\* value[key] on a decoded body
GetItem(value, key) ==
    CASE value.t = "dict" /\ key \in DOMAIN value.d ->
            [raised |-> FALSE, value |-> value.d[key]]
      [] value.t = "dict" /\ key \notin DOMAIN value.d ->
            [raised |-> TRUE, exc |-> "KeyError"]
      [] OTHER -> [raised |-> TRUE, exc |-> "TypeError"]

\* response.json()[key]
JsonItem(body, key) ==
    LET j == ResponseJson(body)
    IN  IF j.raised THEN j ELSE GetItem(j.value, key)

Return(v) == [kind |-> "return", value |-> v]

Raise(exc) == [kind |-> "raise", exc |-> exc]

Pending == [kind |-> "pending"]

ReturnOrRaise(r) == IF r.raised THEN Raise(r.exc) ELSE Return(r.value)

\* the except HTTPError handler
OnHTTPError(resp) ==
    LET e == JsonItem(resp.body, "error")
    IN  IF e.raised
        THEN [prints |-> <<PrintEvent("HTTP error occurred", PyInt(resp.status))>>,
              result |-> Raise(e.exc)]
        ELSE [prints |-> <<PrintEvent("HTTP error occurred", PyInt(resp.status)),
                           PrintEvent("", e.value)>>,
              result |-> Return(None)]

\* an except Exception handler that returns the name of the exception
OnOtherErrorTelling(resp) ==
    [prints |-> <<PrintEvent("Other error occurred", PyStr(<<resp.exc>>))>>,
     result |-> Return(PyStr(<<resp.exc>>))]

\* the except Exception handler
OnOtherError(resp) ==
    [prints |-> <<PrintEvent("Other error occurred", PyStr(<<resp.exc>>))>>,
     result |-> Return(None)]

\* the else clause with the test of only_payload inverted
OnSuccessInverted(resp, only_payload) ==
    [prints |-> <<PrintEvent("Success!", None)>>,
     result |-> IF ~only_payload
                THEN ReturnOrRaise(JsonItem(resp.body, "payload"))
                ELSE ReturnOrRaise(ResponseJson(resp.body))]

\* the else clause of the try statement
OnSuccess(resp, only_payload) ==
    [prints |-> <<PrintEvent("Success!", None)>>,
     result |-> IF only_payload
                THEN ReturnOrRaise(JsonItem(resp.body, "payload"))
                ELSE ReturnOrRaise(ResponseJson(resp.body))]

\* make_request with the except Exception clause placed before except HTTPError
make_request_generic_first(resp, only_payload) ==
    IF resp.kind = "error"
    THEN OnOtherError(resp)
    ELSE IF raise_for_status(resp.status)
         THEN OnOtherError([kind |-> "error", exc |-> "HTTPError"])
         ELSE OnSuccess(resp, only_payload)

\* make_request from the point where requests.request has returned or raised
make_request(resp, only_payload) ==
    IF resp.kind = "error"
    THEN OnOtherError(resp)
    ELSE IF raise_for_status(resp.status)
         THEN OnHTTPError(resp)
         ELSE OnSuccess(resp, only_payload)

----------------------------------------------------------------------------
(* What the transport can produce *)

Statuses == {200, 304, 404, 500}

TransportErrors == {"ConnectionError"}

ErrorValues == {None, PyStr(<<"not found">>)}

PayloadValues == {None, PyDict([x \in {"x"} |-> PyInt(1)])}

\* JSON objects with a status field and any of the fields error and payload
Envelopes(status) ==
    {PyDict([k \in {"status"} \cup (IF e = {} THEN {} ELSE {"error"})
                            \cup (IF p = {} THEN {} ELSE {"payload"}) |->
            CASE k = "status" -> PyInt(status)
              [] k = "error" -> CHOOSE v \in e : TRUE
              [] k = "payload" -> CHOOSE v \in p : TRUE]) :
        e \in {{}} \cup {{v} : v \in ErrorValues},
        p \in {{}} \cup {{v} : v \in PayloadValues}}

Bodies(status) ==
    {[json |-> FALSE]} \cup {[json |-> TRUE, value |-> PyList(<<>>)]}
        \cup {[json |-> TRUE, value |-> v] : v \in Envelopes(status)}

Outcomes ==
    {[kind |-> "error", exc |-> x] : x \in TransportErrors}
        \cup UNION {{[kind |-> "response", status |-> s, body |-> b] : b \in Bodies(s)} :
                    s \in Statuses}

NoResponse == [kind |-> "none"]

----------------------------------------------------------------------------
(* Endpoint functions: each yields what it prints and its call of make_request *)

\* execute_command with the (server_url, server_port) test before the server_name test
execute_command_pair_first(a) ==
    LET p0 == IF a.log_enabled
              THEN SetItem(EmptyDict, "logEnabled", PyStr(<<"true">>))
              ELSE SetItem(EmptyDict, "logEnabled", PyStr(<<"false">>))
        e0 == <<"sas", "/", "cmd">>
        sel == IF a.server_url # None /\ a.server_port # None
               THEN [endpoint |-> e0,
                     params |-> SetItem(SetItem(p0, "serverUrl", a.server_url),
                                        "serverPort", a.server_port),
                     prints |-> <<>>]
               ELSE IF a.server_name # None
                    THEN [endpoint |-> <<"sas", "/", "servers", "/">>
                                           \o Format(a.server_name) \o <<"/", "cmd">>,
                          params |-> SetItem(p0, "repositoryName", a.repository_name),
                          prints |-> <<>>]
                    ELSE [endpoint |-> e0, params |-> p0, prints |-> <<Notice>>]
    IN  [prints |-> sel.prints,
         call |-> MakeRequestCall("PUT", assemble_url(a.url, sel.endpoint), sel.params,
                                  a.command, MakeRequestDefaults.json_data,
                                  a.only_payload)]

execute_command(a) ==
    LET p0 == IF a.log_enabled
              THEN SetItem(EmptyDict, "logEnabled", PyStr(<<"true">>))
              ELSE SetItem(EmptyDict, "logEnabled", PyStr(<<"false">>))
        e0 == <<"sas", "/", "cmd">>
        sel == IF a.server_name # None
               THEN [endpoint |-> <<"sas", "/", "servers", "/">> \o Format(a.server_name)
                                      \o <<"/", "cmd">>,
                     params |-> SetItem(p0, "repositoryName", a.repository_name),
                     prints |-> <<>>]
               ELSE IF a.server_url # None /\ a.server_port # None
                    THEN [endpoint |-> e0,
                          params |-> SetItem(SetItem(p0, "serverUrl", a.server_url),
                                             "serverPort", a.server_port),
                          prints |-> <<>>]
                    ELSE [endpoint |-> e0, params |-> p0, prints |-> <<Notice>>]
    IN  [prints |-> sel.prints,
         call |-> MakeRequestCall("PUT", assemble_url(a.url, sel.endpoint), sel.params,
                                  a.command, MakeRequestDefaults.json_data,
                                  a.only_payload)]

get_library_list(a) ==
    LET p0 == EmptyDict
        e0 == <<"sas", "/", "libraries">>
        sel == IF a.server_name # None
               THEN [endpoint |-> <<"sas", "/", "servers", "/">> \o Format(a.server_name)
                                      \o <<"/", "libraries">>,
                     params |-> SetItem(p0, "repositoryName", a.repository_name),
                     prints |-> <<>>]
               ELSE IF a.server_url # None /\ a.server_port # None
                    THEN [endpoint |-> e0,
                          params |-> SetItem(SetItem(p0, "serverUrl", a.server_url),
                                             "serverPort", a.server_port),
                          prints |-> <<>>]
                    ELSE [endpoint |-> e0, params |-> p0, prints |-> <<Notice>>]
    IN  [prints |-> sel.prints,
         call |-> MakeRequestCall("GET", assemble_url(a.url, sel.endpoint), sel.params,
                                  MakeRequestDefaults.data, MakeRequestDefaults.json_data,
                                  a.only_payload)]

\* get_library_info without the notice of the default branch
get_library_info_silent(a) ==
    LET p0 == EmptyDict
        e0 == <<"sas", "/", "libraries", "/">> \o Format(a.library_name)
        sel == IF a.server_name # None
               THEN [endpoint |-> <<"sas", "/", "servers", "/">> \o Format(a.server_name)
                                      \o <<"/", "libraries", "/">>
                                      \o Format(a.library_name),
                     params |-> SetItem(p0, "repositoryName", a.repository_name)]
               ELSE IF a.server_url # None /\ a.server_port # None
                    THEN [endpoint |-> e0,
                          params |-> SetItem(SetItem(p0, "serverUrl", a.server_url),
                                             "serverPort", a.server_port)]
                    ELSE [endpoint |-> e0, params |-> p0]
    IN  [prints |-> <<>>,
         call |-> MakeRequestCall("GET", assemble_url(a.url, sel.endpoint), sel.params,
                                  MakeRequestDefaults.data, MakeRequestDefaults.json_data,
                                  a.only_payload)]

\* bool(v): None, the empty string and 0 count as false
Truthy(v) == v # None /\ v # PyStr(<<>>) /\ v # PyInt(0)

\* get_library_info testing its selectors by truth value
get_library_info_truthy(a) ==
    LET p0 == EmptyDict
        e0 == <<"sas", "/", "libraries", "/">> \o Format(a.library_name)
        sel == IF Truthy(a.server_name)
               THEN [endpoint |-> <<"sas", "/", "servers", "/">> \o Format(a.server_name)
                                      \o <<"/", "libraries", "/">>
                                      \o Format(a.library_name),
                     params |-> SetItem(p0, "repositoryName", a.repository_name),
                     prints |-> <<>>]
               ELSE IF Truthy(a.server_url) /\ Truthy(a.server_port)
                    THEN [endpoint |-> e0,
                          params |-> SetItem(SetItem(p0, "serverUrl", a.server_url),
                                             "serverPort", a.server_port),
                          prints |-> <<>>]
                    ELSE [endpoint |-> e0, params |-> p0, prints |-> <<Notice>>]
    IN  [prints |-> sel.prints,
         call |-> MakeRequestCall("GET", assemble_url(a.url, sel.endpoint), sel.params,
                                  MakeRequestDefaults.data, MakeRequestDefaults.json_data,
                                  a.only_payload)]

get_library_info(a) ==
    LET p0 == EmptyDict
        e0 == <<"sas", "/", "libraries", "/">> \o Format(a.library_name)
        sel == IF a.server_name # None
               THEN [endpoint |-> <<"sas", "/", "servers", "/">> \o Format(a.server_name)
                                      \o <<"/", "libraries", "/">>
                                      \o Format(a.library_name),
                     params |-> SetItem(p0, "repositoryName", a.repository_name),
                     prints |-> <<>>]
               ELSE IF a.server_url # None /\ a.server_port # None
                    THEN [endpoint |-> e0,
                          params |-> SetItem(SetItem(p0, "serverUrl", a.server_url),
                                             "serverPort", a.server_port),
                          prints |-> <<>>]
                    ELSE [endpoint |-> e0, params |-> p0, prints |-> <<Notice>>]
    IN  [prints |-> sel.prints,
         call |-> MakeRequestCall("GET", assemble_url(a.url, sel.endpoint), sel.params,
                                  MakeRequestDefaults.data, MakeRequestDefaults.json_data,
                                  a.only_payload)]

\* get_dataset_list taking the url/port branch when either of the two is given
get_dataset_list_half_pair(a) ==
    LET p0 == EmptyDict
        e0 == <<"sas", "/", "libraries", "/">> \o Format(a.library_name)
                  \o <<"/", "datasets">>
        sel == IF a.server_name # None
               THEN [endpoint |-> <<"sas", "/", "servers", "/">> \o Format(a.server_name)
                                      \o <<"/", "libraries", "/">>
                                      \o Format(a.library_name) \o <<"/", "datasets">>,
                     params |-> SetItem(EmptyDict, "repositoryName", a.repository_name),
                     prints |-> <<>>]
               ELSE IF a.server_url # None \/ a.server_port # None
                    THEN [endpoint |-> e0,
                          params |-> SetItem(SetItem(p0, "serverUrl", a.server_url),
                                             "serverPort", a.server_port),
                          prints |-> <<>>]
                    ELSE [endpoint |-> e0, params |-> p0, prints |-> <<Notice>>]
    IN  [prints |-> sel.prints,
         call |-> MakeRequestCall("GET", assemble_url(a.url, sel.endpoint), sel.params,
                                  MakeRequestDefaults.data, MakeRequestDefaults.json_data,
                                  a.only_payload)]

get_dataset_list(a) ==
    LET p0 == EmptyDict
        e0 == <<"sas", "/", "libraries", "/">> \o Format(a.library_name)
                  \o <<"/", "datasets">>
        sel == IF a.server_name # None
               THEN [endpoint |-> <<"sas", "/", "servers", "/">> \o Format(a.server_name)
                                      \o <<"/", "libraries", "/">>
                                      \o Format(a.library_name) \o <<"/", "datasets">>,
                     params |-> SetItem(EmptyDict, "repositoryName", a.repository_name),
                     prints |-> <<>>]
               ELSE IF a.server_url # None /\ a.server_port # None
                    THEN [endpoint |-> e0,
                          params |-> SetItem(SetItem(p0, "serverUrl", a.server_url),
                                             "serverPort", a.server_port),
                          prints |-> <<>>]
                    ELSE [endpoint |-> e0, params |-> p0, prints |-> <<Notice>>]
    IN  [prints |-> sel.prints,
         call |-> MakeRequestCall("GET", assemble_url(a.url, sel.endpoint), sel.params,
                                  MakeRequestDefaults.data, MakeRequestDefaults.json_data,
                                  a.only_payload)]

\* get_dataset_info sending the repository name in every branch
get_dataset_info_always_repository(a) ==
    LET p0 == SetItem(EmptyDict, "repositoryName", a.repository_name)
        e0 == <<"sas", "/", "libraries", "/">> \o Format(a.library_name)
                  \o <<"/", "datasets", "/">> \o Format(a.dataset_name)
        sel == IF a.server_name # None
               THEN [endpoint |-> <<"sas", "/", "servers", "/">> \o Format(a.server_name)
                                      \o <<"/", "libraries", "/">>
                                      \o Format(a.library_name) \o <<"/", "datasets", "/">>
                                      \o Format(a.dataset_name),
                     params |-> SetItem(EmptyDict, "repositoryName", a.repository_name),
                     prints |-> <<>>]
               ELSE IF a.server_url # None /\ a.server_port # None
                    THEN [endpoint |-> e0,
                          params |-> SetItem(SetItem(p0, "serverUrl", a.server_url),
                                             "serverPort", a.server_port),
                          prints |-> <<>>]
                    ELSE [endpoint |-> e0, params |-> p0, prints |-> <<Notice>>]
    IN  [prints |-> sel.prints,
         call |-> MakeRequestCall("GET", assemble_url(a.url, sel.endpoint), sel.params,
                                  MakeRequestDefaults.data, MakeRequestDefaults.json_data,
                                  a.only_payload)]

get_dataset_info(a) ==
    LET p0 == EmptyDict
        e0 == <<"sas", "/", "libraries", "/">> \o Format(a.library_name)
                  \o <<"/", "datasets", "/">> \o Format(a.dataset_name)
        sel == IF a.server_name # None
               THEN [endpoint |-> <<"sas", "/", "servers", "/">> \o Format(a.server_name)
                                      \o <<"/", "libraries", "/">>
                                      \o Format(a.library_name) \o <<"/", "datasets", "/">>
                                      \o Format(a.dataset_name),
                     params |-> SetItem(EmptyDict, "repositoryName", a.repository_name),
                     prints |-> <<>>]
               ELSE IF a.server_url # None /\ a.server_port # None
                    THEN [endpoint |-> e0,
                          params |-> SetItem(SetItem(p0, "serverUrl", a.server_url),
                                             "serverPort", a.server_port),
                          prints |-> <<>>]
                    ELSE [endpoint |-> e0, params |-> p0, prints |-> <<Notice>>]
    IN  [prints |-> sel.prints,
         call |-> MakeRequestCall("GET", assemble_url(a.url, sel.endpoint), sel.params,
                                  MakeRequestDefaults.data, MakeRequestDefaults.json_data,
                                  a.only_payload)]

\* retrieve_data whose server_name branch starts a new dict
retrieve_data_rebinding(a) ==
    LET p0 == SetItem(SetItem(EmptyDict, "limit", a.limit), "offset", a.offset)
        e0 == <<"sas", "/", "libraries", "/">> \o Format(a.library_name)
                  \o <<"/", "datasets", "/">> \o Format(a.dataset_name) \o <<"/", "data">>
        p1 == IF a.filter_ # None THEN SetItem(p0, "filter", a.filter_) ELSE p0
        sel == IF a.server_name # None
               THEN [endpoint |-> <<"sas", "/", "servers", "/">> \o Format(a.server_name)
                                      \o <<"/", "libraries", "/">>
                                      \o Format(a.library_name) \o <<"/", "datasets", "/">>
                                      \o Format(a.dataset_name) \o <<"/", "data">>,
                     params |-> SetItem(EmptyDict, "repositoryName", a.repository_name),
                     prints |-> <<>>]
               ELSE IF a.server_url # None /\ a.server_port # None
                    THEN [endpoint |-> e0,
                          params |-> SetItem(SetItem(p1, "serverUrl", a.server_url),
                                             "serverPort", a.server_port),
                          prints |-> <<>>]
                    ELSE [endpoint |-> e0, params |-> p1, prints |-> <<Notice>>]
    IN  [prints |-> sel.prints,
         call |-> MakeRequestCall("GET", assemble_url(a.url, sel.endpoint), sel.params,
                                  MakeRequestDefaults.data, MakeRequestDefaults.json_data,
                                  a.only_payload)]

retrieve_data(a) ==
    LET p0 == SetItem(SetItem(EmptyDict, "limit", a.limit), "offset", a.offset)
        e0 == <<"sas", "/", "libraries", "/">> \o Format(a.library_name)
                  \o <<"/", "datasets", "/">> \o Format(a.dataset_name) \o <<"/", "data">>
        p1 == IF a.filter_ # None THEN SetItem(p0, "filter", a.filter_) ELSE p0
        sel == IF a.server_name # None
               THEN [endpoint |-> <<"sas", "/", "servers", "/">> \o Format(a.server_name)
                                      \o <<"/", "libraries", "/">>
                                      \o Format(a.library_name) \o <<"/", "datasets", "/">>
                                      \o Format(a.dataset_name) \o <<"/", "data">>,
                     params |-> SetItem(p1, "repositoryName", a.repository_name),
                     prints |-> <<>>]
               ELSE IF a.server_url # None /\ a.server_port # None
                    THEN [endpoint |-> e0,
                          params |-> SetItem(SetItem(p1, "serverUrl", a.server_url),
                                             "serverPort", a.server_port),
                          prints |-> <<>>]
                    ELSE [endpoint |-> e0, params |-> p1, prints |-> <<Notice>>]
    IN  [prints |-> sel.prints,
         call |-> MakeRequestCall("GET", assemble_url(a.url, sel.endpoint), sel.params,
                                  MakeRequestDefaults.data, MakeRequestDefaults.json_data,
                                  a.only_payload)]

\* insert_data that posts when no server name is given
insert_data_posting(a) ==
    LET p0 == IF a.by_key # None THEN SetItem(EmptyDict, "byKey", a.by_key) ELSE EmptyDict
        e0 == <<"sas", "/", "libraries", "/">> \o Format(a.library_name)
                  \o <<"/", "datasets", "/">> \o Format(a.dataset_name) \o <<"/", "data">>
        sel == IF a.server_name # None
               THEN [endpoint |-> <<"sas", "/", "servers", "/">> \o Format(a.server_name)
                                      \o <<"/", "libraries", "/">>
                                      \o Format(a.library_name) \o <<"/", "datasets", "/">>
                                      \o Format(a.dataset_name) \o <<"/", "data">>,
                     params |-> SetItem(p0, "repositoryName", a.repository_name),
                     prints |-> <<>>]
               ELSE IF a.server_url # None /\ a.server_port # None
                    THEN [endpoint |-> e0,
                          params |-> SetItem(SetItem(p0, "serverUrl", a.server_url),
                                             "serverPort", a.server_port),
                          prints |-> <<>>]
                    ELSE [endpoint |-> e0, params |-> p0, prints |-> <<Notice>>]
    IN  [prints |-> sel.prints,
         call |-> MakeRequestCall(IF a.server_name # None THEN "PUT" ELSE "POST",
                                  assemble_url(a.url, sel.endpoint), sel.params,
                                  MakeRequestDefaults.data, a.json_data, a.only_payload)]

insert_data(a) ==
    LET p0 == IF a.by_key # None THEN SetItem(EmptyDict, "byKey", a.by_key) ELSE EmptyDict
        e0 == <<"sas", "/", "libraries", "/">> \o Format(a.library_name)
                  \o <<"/", "datasets", "/">> \o Format(a.dataset_name) \o <<"/", "data">>
        sel == IF a.server_name # None
               THEN [endpoint |-> <<"sas", "/", "servers", "/">> \o Format(a.server_name)
                                      \o <<"/", "libraries", "/">>
                                      \o Format(a.library_name) \o <<"/", "datasets", "/">>
                                      \o Format(a.dataset_name) \o <<"/", "data">>,
                     params |-> SetItem(p0, "repositoryName", a.repository_name),
                     prints |-> <<>>]
               ELSE IF a.server_url # None /\ a.server_port # None
                    THEN [endpoint |-> e0,
                          params |-> SetItem(SetItem(p0, "serverUrl", a.server_url),
                                             "serverPort", a.server_port),
                          prints |-> <<>>]
                    ELSE [endpoint |-> e0, params |-> p0, prints |-> <<Notice>>]
    IN  [prints |-> sel.prints,
         call |-> MakeRequestCall("PUT", assemble_url(a.url, sel.endpoint), sel.params,
                                  MakeRequestDefaults.data, a.json_data, a.only_payload)]

\* replace_all_data handing the records over as the raw body
replace_all_data_raw(a) ==
    LET p0 == EmptyDict
        e0 == <<"sas", "/", "libraries", "/">> \o Format(a.library_name)
                  \o <<"/", "datasets", "/">> \o Format(a.dataset_name) \o <<"/", "data">>
        sel == IF a.server_name # None
               THEN [endpoint |-> <<"sas", "/", "servers", "/">> \o Format(a.server_name)
                                      \o <<"/", "libraries", "/">>
                                      \o Format(a.library_name) \o <<"/", "datasets", "/">>
                                      \o Format(a.dataset_name) \o <<"/", "data">>,
                     params |-> SetItem(p0, "repositoryName", a.repository_name),
                     prints |-> <<>>]
               ELSE IF a.server_url # None /\ a.server_port # None
                    THEN [endpoint |-> e0,
                          params |-> SetItem(SetItem(p0, "serverUrl", a.server_url),
                                             "serverPort", a.server_port),
                          prints |-> <<>>]
                    ELSE [endpoint |-> e0, params |-> p0, prints |-> <<Notice>>]
    IN  [prints |-> sel.prints,
         call |-> MakeRequestCall("POST", assemble_url(a.url, sel.endpoint), sel.params,
                                  a.json_data, MakeRequestDefaults.json_data, a.only_payload)]

replace_all_data(a) ==
    LET p0 == EmptyDict
        e0 == <<"sas", "/", "libraries", "/">> \o Format(a.library_name)
                  \o <<"/", "datasets", "/">> \o Format(a.dataset_name) \o <<"/", "data">>
        sel == IF a.server_name # None
               THEN [endpoint |-> <<"sas", "/", "servers", "/">> \o Format(a.server_name)
                                      \o <<"/", "libraries", "/">>
                                      \o Format(a.library_name) \o <<"/", "datasets", "/">>
                                      \o Format(a.dataset_name) \o <<"/", "data">>,
                     params |-> SetItem(p0, "repositoryName", a.repository_name),
                     prints |-> <<>>]
               ELSE IF a.server_url # None /\ a.server_port # None
                    THEN [endpoint |-> e0,
                          params |-> SetItem(SetItem(p0, "serverUrl", a.server_url),
                                             "serverPort", a.server_port),
                          prints |-> <<>>]
                    ELSE [endpoint |-> e0, params |-> p0, prints |-> <<Notice>>]
    IN  [prints |-> sel.prints,
         call |-> MakeRequestCall("POST", assemble_url(a.url, sel.endpoint), sel.params,
                                  MakeRequestDefaults.data, a.json_data, a.only_payload)]

\* delete_dataset with server_url and server_port stored under each other's key
delete_dataset_swapped_pair(a) ==
    LET p0 == EmptyDict
        e0 == <<"sas", "/", "libraries", "/">> \o Format(a.library_name)
                  \o <<"/", "datasets", "/">> \o Format(a.dataset_name) \o <<"/", "data">>
        sel == IF a.server_name # None
               THEN [endpoint |-> <<"sas", "/", "servers", "/">> \o Format(a.server_name)
                                      \o <<"/", "libraries", "/">>
                                      \o Format(a.library_name) \o <<"/", "datasets", "/">>
                                      \o Format(a.dataset_name) \o <<"/", "data">>,
                     params |-> SetItem(p0, "repositoryName", a.repository_name),
                     prints |-> <<>>]
               ELSE IF a.server_url # None /\ a.server_port # None
                    THEN [endpoint |-> e0,
                          params |-> SetItem(SetItem(p0, "serverUrl", a.server_port),
                                             "serverPort", a.server_url),
                          prints |-> <<>>]
                    ELSE [endpoint |-> e0, params |-> p0, prints |-> <<Notice>>]
    IN  [prints |-> sel.prints,
         call |-> MakeRequestCall("DELETE", assemble_url(a.url, sel.endpoint), sel.params,
                                  MakeRequestDefaults.data, MakeRequestDefaults.json_data,
                                  a.only_payload)]

\* delete_dataset addressing the dataset itself, as get_dataset_info does
delete_dataset_entry(a) ==
    LET p0 == EmptyDict
        e0 == <<"sas", "/", "libraries", "/">> \o Format(a.library_name)
                  \o <<"/", "datasets", "/">> \o Format(a.dataset_name)
        sel == IF a.server_name # None
               THEN [endpoint |-> <<"sas", "/", "servers", "/">> \o Format(a.server_name)
                                      \o <<"/", "libraries", "/">>
                                      \o Format(a.library_name) \o <<"/", "datasets", "/">>
                                      \o Format(a.dataset_name),
                     params |-> SetItem(p0, "repositoryName", a.repository_name),
                     prints |-> <<>>]
               ELSE IF a.server_url # None /\ a.server_port # None
                    THEN [endpoint |-> e0,
                          params |-> SetItem(SetItem(p0, "serverUrl", a.server_url),
                                             "serverPort", a.server_port),
                          prints |-> <<>>]
                    ELSE [endpoint |-> e0, params |-> p0, prints |-> <<Notice>>]
    IN  [prints |-> sel.prints,
         call |-> MakeRequestCall("DELETE", assemble_url(a.url, sel.endpoint), sel.params,
                                  MakeRequestDefaults.data, MakeRequestDefaults.json_data,
                                  a.only_payload)]

delete_dataset(a) ==
    LET p0 == EmptyDict
        e0 == <<"sas", "/", "libraries", "/">> \o Format(a.library_name)
                  \o <<"/", "datasets", "/">> \o Format(a.dataset_name) \o <<"/", "data">>
        sel == IF a.server_name # None
               THEN [endpoint |-> <<"sas", "/", "servers", "/">> \o Format(a.server_name)
                                      \o <<"/", "libraries", "/">>
                                      \o Format(a.library_name) \o <<"/", "datasets", "/">>
                                      \o Format(a.dataset_name) \o <<"/", "data">>,
                     params |-> SetItem(p0, "repositoryName", a.repository_name),
                     prints |-> <<>>]
               ELSE IF a.server_url # None /\ a.server_port # None
                    THEN [endpoint |-> e0,
                          params |-> SetItem(SetItem(p0, "serverUrl", a.server_url),
                                             "serverPort", a.server_port),
                          prints |-> <<>>]
                    ELSE [endpoint |-> e0, params |-> p0, prints |-> <<Notice>>]
    IN  [prints |-> sel.prints,
         call |-> MakeRequestCall("DELETE", assemble_url(a.url, sel.endpoint), sel.params,
                                  MakeRequestDefaults.data, MakeRequestDefaults.json_data,
                                  a.only_payload)]

\* move_object with destinationLocation and publicType carrying their own arguments
move_object_unswapped(a) ==
    LET endpoint == <<"sas", "/", "meta", "/", "objects", "/", "move">>
        initial_params ==
            [k \in {"sourceLocation", "sourceName", "destinationLocation", "publicType",
                    "repositoryName"} |->
                CASE k = "sourceLocation" -> a.source_location
                  [] k = "sourceName" -> a.source_name
                  [] k = "destinationLocation" -> a.destination_location
                  [] k = "publicType" -> a.public_type
                  [] k = "repositoryName" -> a.repository_name]
    IN  [prints |-> <<>>,
         call |-> MakeRequestCall("POST", assemble_url(a.url, endpoint), initial_params,
                                  MakeRequestDefaults.data, MakeRequestDefaults.json_data,
                                  a.only_payload)]

move_object(a) ==
    LET endpoint == <<"sas", "/", "meta", "/", "objects", "/", "move">>
        initial_params ==
            [k \in {"sourceLocation", "sourceName", "destinationLocation", "publicType",
                    "repositoryName"} |->
                CASE k = "sourceLocation" -> a.source_location
                  [] k = "sourceName" -> a.source_name
                  [] k = "destinationLocation" -> a.public_type
                  [] k = "publicType" -> a.destination_location
                  [] k = "repositoryName" -> a.repository_name]
    IN  [prints |-> <<>>,
         call |-> MakeRequestCall("POST", assemble_url(a.url, endpoint), initial_params,
                                  MakeRequestDefaults.data, MakeRequestDefaults.json_data,
                                  a.only_payload)]

get_metadata_server_config(a) ==
    LET endpoint == <<"sas", "/">>
    IN  [prints |-> <<>>,
         call |-> MakeRequestCall("GET", assemble_url(a.url, endpoint),
                                  MakeRequestDefaults.initial_params,
                                  MakeRequestDefaults.data, MakeRequestDefaults.json_data,
                                  a.only_payload)]

get_license_info(a) ==
    LET endpoint == <<"sas", "/", "license">>
    IN  [prints |-> <<>>,
         call |-> MakeRequestCall("GET", assemble_url(a.url, endpoint),
                                  MakeRequestDefaults.initial_params,
                                  MakeRequestDefaults.data, MakeRequestDefaults.json_data,
                                  a.only_payload)]

\* get_workspace_server_list that also sends how many calls are under way or ended
get_workspace_server_list_numbered(a) ==
    LET endpoint == <<"sas", "/", "servers">>
        initial_params ==
            SetItem(SetItem(EmptyDict, "repositoryName", a.repository_name),
                    "call", PyInt(Cardinality({c \in Callers : pc[c] # "idle"})))
    IN  [prints |-> <<>>,
         call |-> MakeRequestCall("GET", assemble_url(a.url, endpoint), initial_params,
                                  MakeRequestDefaults.data, MakeRequestDefaults.json_data,
                                  a.only_payload)]

get_workspace_server_list(a) ==
    LET endpoint == <<"sas", "/", "servers">>
        initial_params == SetItem(EmptyDict, "repositoryName", a.repository_name)
    IN  [prints |-> <<>>,
         call |-> MakeRequestCall("GET", assemble_url(a.url, endpoint), initial_params,
                                  MakeRequestDefaults.data, MakeRequestDefaults.json_data,
                                  a.only_payload)]

get_workspace_server_config(a) ==
    LET endpoint == <<"sas", "/", "servers", "/">> \o Format(a.server_name)
        initial_params == SetItem(EmptyDict, "repositoryName", a.repository_name)
    IN  [prints |-> <<>>,
         call |-> MakeRequestCall("GET", assemble_url(a.url, endpoint), initial_params,
                                  MakeRequestDefaults.data, MakeRequestDefaults.json_data,
                                  a.only_payload)]

get_stp_server_list(a) ==
    LET endpoint == <<"sas", "/", "stp">>
        initial_params == SetItem(EmptyDict, "repositoryName", a.repository_name)
    IN  [prints |-> <<>>,
         call |-> MakeRequestCall("GET", assemble_url(a.url, endpoint), initial_params,
                                  MakeRequestDefaults.data, MakeRequestDefaults.json_data,
                                  a.only_payload)]

get_stp_server_config(a) ==
    LET endpoint == <<"sas", "/", "stp", "/">> \o Format(a.server_name)
        initial_params == SetItem(EmptyDict, "repositoryName", a.repository_name)
    IN  [prints |-> <<>>,
         call |-> MakeRequestCall("GET", assemble_url(a.url, endpoint), initial_params,
                                  MakeRequestDefaults.data, MakeRequestDefaults.json_data,
                                  a.only_payload)]

get_user_list(a) ==
    LET endpoint == <<"sas", "/", "meta", "/", "users">>
        initial_params == SetItem(EmptyDict, "repositoryName", a.repository_name)
    IN  [prints |-> <<>>,
         call |-> MakeRequestCall("GET", assemble_url(a.url, endpoint), initial_params,
                                  MakeRequestDefaults.data, MakeRequestDefaults.json_data,
                                  a.only_payload)]

get_configured_user_info(a) ==
    LET endpoint == <<"sas", "/", "user">>
        initial_params == SetItem(EmptyDict, "repositoryName", a.repository_name)
    IN  [prints |-> <<>>,
         call |-> MakeRequestCall("GET", assemble_url(a.url, endpoint), initial_params,
                                  MakeRequestDefaults.data, MakeRequestDefaults.json_data,
                                  a.only_payload)]

\* get_user_info asking the path of the configured user
get_user_info_configured(a) ==
    LET endpoint == <<"sas", "/", "user", "/">> \o Format(a.user_name)
        initial_params == SetItem(EmptyDict, "repositoryName", a.repository_name)
    IN  [prints |-> <<>>,
         call |-> MakeRequestCall("GET", assemble_url(a.url, endpoint), initial_params,
                                  MakeRequestDefaults.data, MakeRequestDefaults.json_data,
                                  a.only_payload)]

get_user_info(a) ==
    LET endpoint == <<"sas", "/", "meta", "/", "users", "/">> \o Format(a.user_name)
        initial_params == SetItem(EmptyDict, "repositoryName", a.repository_name)
    IN  [prints |-> <<>>,
         call |-> MakeRequestCall("GET", assemble_url(a.url, endpoint), initial_params,
                                  MakeRequestDefaults.data, MakeRequestDefaults.json_data,
                                  a.only_payload)]

get_group_list(a) ==
    LET endpoint == <<"sas", "/", "meta", "/", "groups">>
        initial_params == SetItem(EmptyDict, "repositoryName", a.repository_name)
    IN  [prints |-> <<>>,
         call |-> MakeRequestCall("GET", assemble_url(a.url, endpoint), initial_params,
                                  MakeRequestDefaults.data, MakeRequestDefaults.json_data,
                                  a.only_payload)]

get_group_info(a) ==
    LET endpoint == <<"sas", "/", "meta", "/", "groups", "/">> \o Format(a.group_name)
        initial_params == SetItem(EmptyDict, "repositoryName", a.repository_name)
    IN  [prints |-> <<>>,
         call |-> MakeRequestCall("GET", assemble_url(a.url, endpoint), initial_params,
                                  MakeRequestDefaults.data, MakeRequestDefaults.json_data,
                                  a.only_payload)]

get_role_list(a) ==
    LET endpoint == <<"sas", "/", "meta", "/", "roles">>
        initial_params == SetItem(EmptyDict, "repositoryName", a.repository_name)
    IN  [prints |-> <<>>,
         call |-> MakeRequestCall("GET", assemble_url(a.url, endpoint), initial_params,
                                  MakeRequestDefaults.data, MakeRequestDefaults.json_data,
                                  a.only_payload)]

get_role_info(a) ==
    LET endpoint == <<"sas", "/", "meta", "/", "roles", "/">> \o Format(a.role_name)
        initial_params == SetItem(EmptyDict, "repositoryName", a.repository_name)
    IN  [prints |-> <<>>,
         call |-> MakeRequestCall("GET", assemble_url(a.url, endpoint), initial_params,
                                  MakeRequestDefaults.data, MakeRequestDefaults.json_data,
                                  a.only_payload)]

\* create_library storing the flag itself
create_library_flag(a) ==
    LET endpoint == <<"sas", "/", "servers", "/">> \o Format(a.server_name)
                        \o <<"/", "libraries", "/">> \o Format(a.library_name)
        p0 == [k \in {"engine", "displayName", "path", "location", "repositoryName"} |->
                CASE k = "engine" -> a.engine
                  [] k = "displayName" -> a.display_name
                  [] k = "path" -> a.path
                  [] k = "location" -> a.location
                  [] k = "repositoryName" -> a.repository_name]
        initial_params == SetItem(p0, "isPreassigned", PyBool(a.is_preassigned))
    IN  [prints |-> <<>>,
         call |-> MakeRequestCall("POST", assemble_url(a.url, endpoint), initial_params,
                                  MakeRequestDefaults.data, MakeRequestDefaults.json_data,
                                  a.only_payload)]

create_library(a) ==
    LET endpoint == <<"sas", "/", "servers", "/">> \o Format(a.server_name)
                        \o <<"/", "libraries", "/">> \o Format(a.library_name)
        p0 == [k \in {"engine", "displayName", "path", "location", "repositoryName"} |->
                CASE k = "engine" -> a.engine
                  [] k = "displayName" -> a.display_name
                  [] k = "path" -> a.path
                  [] k = "location" -> a.location
                  [] k = "repositoryName" -> a.repository_name]
        initial_params == IF a.is_preassigned
                          THEN SetItem(p0, "isPreassigned", PyStr(<<"true">>))
                          ELSE SetItem(p0, "isPreassigned", PyStr(<<"false">>))
    IN  [prints |-> <<>>,
         call |-> MakeRequestCall("POST", assemble_url(a.url, endpoint), initial_params,
                                  MakeRequestDefaults.data, MakeRequestDefaults.json_data,
                                  a.only_payload)]

delete_library(a) ==
    LET endpoint == <<"sas", "/", "servers", "/">> \o Format(a.server_name)
                        \o <<"/", "libraries", "/">> \o Format(a.library_name)
        initial_params == SetItem(EmptyDict, "repositoryName", a.repository_name)
    IN  [prints |-> <<>>,
         call |-> MakeRequestCall("DELETE", assemble_url(a.url, endpoint), initial_params,
                                  MakeRequestDefaults.data, MakeRequestDefaults.json_data,
                                  a.only_payload)]

\* find_object with every criterion written into the dict as text
find_object_none_as_text(a) ==
    LET endpoint == <<"sas", "/", "meta", "/", "search">>
        initial_params ==
            [k \in {
                    "repositoryName", "location", "locationRecursive", "objectID",
                    "objectType", "publicType", "nameEquals", "nameStarts",
                    "nameContains", "nameRegex", "descriptionContains",
                    "descriptionRegex", "createdGt", "createdLt", "modifiedGt",
                    "modifiedLt", "tableLibref", "tableDBMS", "includeAssociations",
                    "includePermissions"} |->
                CASE k = "repositoryName" -> a.repository_name
                  [] k = "location" -> PyStr(Format(a.location))
                  [] k = "locationRecursive" -> a.location_recursive
                  [] k = "objectID" -> PyStr(Format(a.object_id))
                  [] k = "objectType" -> PyStr(Format(a.object_type))
                  [] k = "publicType" -> PyStr(Format(a.public_type))
                  [] k = "nameEquals" -> PyStr(Format(a.name_equals))
                  [] k = "nameStarts" -> PyStr(Format(a.name_starts))
                  [] k = "nameContains" -> PyStr(Format(a.name_contains))
                  [] k = "nameRegex" -> PyStr(Format(a.name_regex))
                  [] k = "descriptionContains" -> PyStr(Format(a.description_contains))
                  [] k = "descriptionRegex" -> PyStr(Format(a.description_regex))
                  [] k = "createdGt" -> PyStr(Format(a.created_gt))
                  [] k = "createdLt" -> PyStr(Format(a.created_lt))
                  [] k = "modifiedGt" -> PyStr(Format(a.modified_gt))
                  [] k = "modifiedLt" -> PyStr(Format(a.modified_lt))
                  [] k = "tableLibref" -> PyStr(Format(a.table_libref))
                  [] k = "tableDBMS" -> PyStr(Format(a.table_dbms))
                  [] k = "includeAssociations" -> a.include_associations
                  [] k = "includePermissions" -> a.include_permissions]
    IN  [prints |-> <<>>,
         call |-> MakeRequestCall("GET", assemble_url(a.url, endpoint), initial_params,
                                  MakeRequestDefaults.data, MakeRequestDefaults.json_data,
                                  a.only_payload)]

find_object(a) ==
    LET endpoint == <<"sas", "/", "meta", "/", "search">>
        initial_params ==
            [k \in {
                    "repositoryName", "location", "locationRecursive", "objectID",
                    "objectType", "publicType", "nameEquals", "nameStarts",
                    "nameContains", "nameRegex", "descriptionContains",
                    "descriptionRegex", "createdGt", "createdLt", "modifiedGt",
                    "modifiedLt", "tableLibref", "tableDBMS", "includeAssociations",
                    "includePermissions"} |->
                CASE k = "repositoryName" -> a.repository_name
                  [] k = "location" -> a.location
                  [] k = "locationRecursive" -> a.location_recursive
                  [] k = "objectID" -> a.object_id
                  [] k = "objectType" -> a.object_type
                  [] k = "publicType" -> a.public_type
                  [] k = "nameEquals" -> a.name_equals
                  [] k = "nameStarts" -> a.name_starts
                  [] k = "nameContains" -> a.name_contains
                  [] k = "nameRegex" -> a.name_regex
                  [] k = "descriptionContains" -> a.description_contains
                  [] k = "descriptionRegex" -> a.description_regex
                  [] k = "createdGt" -> a.created_gt
                  [] k = "createdLt" -> a.created_lt
                  [] k = "modifiedGt" -> a.modified_gt
                  [] k = "modifiedLt" -> a.modified_lt
                  [] k = "tableLibref" -> a.table_libref
                  [] k = "tableDBMS" -> a.table_dbms
                  [] k = "includeAssociations" -> a.include_associations
                  [] k = "includePermissions" -> a.include_permissions]
    IN  [prints |-> <<>>,
         call |-> MakeRequestCall("GET", assemble_url(a.url, endpoint), initial_params,
                                  MakeRequestDefaults.data, MakeRequestDefaults.json_data,
                                  a.only_payload)]

delete_object(a) ==
    LET endpoint == <<"sas", "/", "meta", "/", "objects", "/", "delete">>
        initial_params ==
            [k \in {"sourceLocation", "sourceName", "publicType", "repositoryName"} |->
                CASE k = "sourceLocation" -> a.source_location
                  [] k = "sourceName" -> a.source_name
                  [] k = "publicType" -> a.public_type
                  [] k = "repositoryName" -> a.repository_name]
    IN  [prints |-> <<>>,
         call |-> MakeRequestCall("POST", assemble_url(a.url, endpoint), initial_params,
                                  MakeRequestDefaults.data, MakeRequestDefaults.json_data,
                                  a.only_payload)]

----------------------------------------------------------------------------
(* Actions *)

Idle == [fn |-> "none"]

NoFrame == [method |-> "none"]

\* an invocation that stores its parameters in the default dict of make_request
InvokeLeaking(c, fn, a, r) ==
    /\ pc' = [pc EXCEPT ![c] = "waiting"]
    /\ call' = [call EXCEPT ![c] = [fn |-> fn, args |-> a]]
    /\ frame' = [frame EXCEPT ![c] = r.call]
    /\ trace' = [trace EXCEPT ![c] = r.prints \o <<RequestEvent(requests_request(r.call))>>]
    /\ defaults' = [defaults EXCEPT !.initial_params = r.call.initial_params]
    /\ UNCHANGED <<response, result, join>>

\* caller c runs endpoint function fn on arguments a up to the point where
\* make_request is inside requests.request
Invoke(c, fn, a, r) ==
    /\ pc' = [pc EXCEPT ![c] = "waiting"]
    /\ call' = [call EXCEPT ![c] = [fn |-> fn, args |-> a]]
    /\ frame' = [frame EXCEPT ![c] = r.call]
    /\ trace' = [trace EXCEPT ![c] = r.prints \o <<RequestEvent(requests_request(r.call))>>]
    /\ UNCHANGED <<response, result, defaults, join>>

\* signatures whose default repository is another one
SignatureDefaultsCustom == [repository_name |-> PyStr(<<"Custom">>), only_payload |-> FALSE]

\* the defaults that the signatures give repository_name and only_payload
SignatureDefaults == [repository_name |-> PyStr(<<"Foundation">>), only_payload |-> FALSE]

\* the optional arguments a caller may leave out
Optional == {"repository_name", "only_payload"}

\* argument binding: a.passed names the optional arguments the caller passed, and an
\* argument it left out has the default of the signature
Bound(a) ==
    \A k \in Optional \cap DOMAIN a : k \notin a.passed => a[k] = SignatureDefaults[k]

\* the arguments every endpoint function takes
BaseArgs ==
    {a \in [url : Urls, repository_name : RepositoryNames, only_payload : Booleans,
            passed : SUBSET Optional] : Bound(a)}

\* the arguments of the functions that address a workspace server
TargetArgs ==
    {a \in [url : Urls, server_name : ServerNames, repository_name : RepositoryNames,
            server_url : ServerUrls, server_port : ServerPorts, only_payload : Booleans,
            passed : SUBSET Optional] : Bound(a)}

Call_execute_command(c) ==
    /\ pc[c] = "idle"
    /\ \E t \in TargetArgs, command \in Commands, log_enabled \in Booleans :
           LET a == t @@ [command |-> command, log_enabled |-> log_enabled]
           IN  Invoke(c, "execute_command", a, execute_command(a))

Call_get_library_list(c) ==
    /\ pc[c] = "idle"
    /\ \E a \in TargetArgs :
           Invoke(c, "get_library_list", a, get_library_list(a))

Call_get_library_info(c) ==
    /\ pc[c] = "idle"
    /\ \E t \in TargetArgs, library_name \in LibraryNames :
           LET a == t @@ [library_name |-> library_name]
           IN  Invoke(c, "get_library_info", a, get_library_info(a))

Call_get_dataset_list(c) ==
    /\ pc[c] = "idle"
    /\ \E t \in TargetArgs, library_name \in LibraryNames :
           LET a == t @@ [library_name |-> library_name]
           IN  Invoke(c, "get_dataset_list", a, get_dataset_list(a))

Call_get_dataset_info(c) ==
    /\ pc[c] = "idle"
    /\ \E t \in TargetArgs, library_name \in LibraryNames, dataset_name \in DatasetNames :
           LET a == t @@ [library_name |-> library_name, dataset_name |-> dataset_name]
           IN  Invoke(c, "get_dataset_info", a, get_dataset_info(a))

Call_retrieve_data(c) ==
    /\ pc[c] = "idle"
    /\ \E t \in TargetArgs, library_name \in LibraryNames, dataset_name \in DatasetNames,
          w \in Windows, window_passed \in Booleans, filter_ \in Filters :
           LET a == [passed |-> t.passed \cup (IF window_passed THEN {"limit", "offset"}
                                                                ELSE {})]
                        @@ t @@ [library_name |-> library_name, dataset_name |-> dataset_name,
                                 limit |-> w[1], offset |-> w[2], filter_ |-> filter_]
           IN  /\ ~window_passed =>
                      w = <<RetrieveDefaults.limit, RetrieveDefaults.offset>>
               /\ Invoke(c, "retrieve_data", a, retrieve_data(a))

Call_insert_data(c) ==
    /\ pc[c] = "idle"
    /\ \E t \in TargetArgs, library_name \in LibraryNames, dataset_name \in DatasetNames,
          json_data \in JsonData, by_key \in ByKeys :
           LET a == t @@ [library_name |-> library_name, dataset_name |-> dataset_name,
                          json_data |-> json_data, by_key |-> by_key]
           IN  Invoke(c, "insert_data", a, insert_data(a))

Call_replace_all_data(c) ==
    /\ pc[c] = "idle"
    /\ \E t \in TargetArgs, library_name \in LibraryNames, dataset_name \in DatasetNames,
          json_data \in JsonData :
           LET a == t @@ [library_name |-> library_name, dataset_name |-> dataset_name,
                          json_data |-> json_data]
           IN  Invoke(c, "replace_all_data", a, replace_all_data(a))

Call_delete_dataset(c) ==
    /\ pc[c] = "idle"
    /\ \E t \in TargetArgs, library_name \in LibraryNames, dataset_name \in DatasetNames :
           LET a == t @@ [library_name |-> library_name, dataset_name |-> dataset_name]
           IN  Invoke(c, "delete_dataset", a, delete_dataset(a))

Call_move_object(c) ==
    /\ pc[c] = "idle"
    /\ \E b \in BaseArgs, source_location \in Locations, source_name \in ObjectNames,
          public_type \in PublicTypes, destination_location \in Locations :
           LET a == b @@ [source_location |-> source_location, source_name |-> source_name,
                          public_type |-> public_type,
                          destination_location |-> destination_location]
           IN  Invoke(c, "move_object", a, move_object(a))

\* the arguments of the functions that take no repository name
PlainArgs ==
    {a \in [url : Urls, only_payload : Booleans, passed : SUBSET {"only_payload"}] :
        Bound(a)}

Call_get_metadata_server_config(c) ==
    /\ pc[c] = "idle"
    /\ \E a \in PlainArgs :
           Invoke(c, "get_metadata_server_config", a, get_metadata_server_config(a))

Call_get_license_info(c) ==
    /\ pc[c] = "idle"
    /\ \E a \in PlainArgs :
           Invoke(c, "get_license_info", a, get_license_info(a))

Call_get_workspace_server_list(c) ==
    /\ pc[c] = "idle"
    /\ \E a \in BaseArgs :
           Invoke(c, "get_workspace_server_list", a, get_workspace_server_list(a))

Call_get_workspace_server_config(c) ==
    /\ pc[c] = "idle"
    /\ \E b \in BaseArgs, server_name \in GivenServerNames :
           LET a == b @@ [server_name |-> server_name]
           IN  Invoke(c, "get_workspace_server_config", a, get_workspace_server_config(a))

Call_get_stp_server_list(c) ==
    /\ pc[c] = "idle"
    /\ \E a \in BaseArgs :
           Invoke(c, "get_stp_server_list", a, get_stp_server_list(a))

Call_get_stp_server_config(c) ==
    /\ pc[c] = "idle"
    /\ \E b \in BaseArgs, server_name \in GivenServerNames :
           LET a == b @@ [server_name |-> server_name]
           IN  Invoke(c, "get_stp_server_config", a, get_stp_server_config(a))

Call_get_user_list(c) ==
    /\ pc[c] = "idle"
    /\ \E a \in BaseArgs :
           Invoke(c, "get_user_list", a, get_user_list(a))

Call_get_configured_user_info(c) ==
    /\ pc[c] = "idle"
    /\ \E a \in BaseArgs :
           Invoke(c, "get_configured_user_info", a, get_configured_user_info(a))

Call_get_user_info(c) ==
    /\ pc[c] = "idle"
    /\ \E b \in BaseArgs, user_name \in UserNames :
           LET a == b @@ [user_name |-> user_name]
           IN  Invoke(c, "get_user_info", a, get_user_info(a))

Call_get_group_list(c) ==
    /\ pc[c] = "idle"
    /\ \E a \in BaseArgs :
           Invoke(c, "get_group_list", a, get_group_list(a))

Call_get_group_info(c) ==
    /\ pc[c] = "idle"
    /\ \E b \in BaseArgs, group_name \in GroupNames :
           LET a == b @@ [group_name |-> group_name]
           IN  Invoke(c, "get_group_info", a, get_group_info(a))

Call_get_role_list(c) ==
    /\ pc[c] = "idle"
    /\ \E a \in BaseArgs :
           Invoke(c, "get_role_list", a, get_role_list(a))

Call_get_role_info(c) ==
    /\ pc[c] = "idle"
    /\ \E b \in BaseArgs, role_name \in RoleNames :
           LET a == b @@ [role_name |-> role_name]
           IN  Invoke(c, "get_role_info", a, get_role_info(a))

Call_create_library(c) ==
    /\ pc[c] = "idle"
    /\ \E b \in BaseArgs, server_name \in GivenServerNames, library_name \in LibraryNames,
          engine \in Engines, display_name \in DisplayNames, path \in LibraryPaths,
          location \in Locations, is_preassigned \in Booleans :
           LET a == b @@ [server_name |-> server_name, library_name |-> library_name,
                          engine |-> engine, display_name |-> display_name,
                          path |-> path, location |-> location,
                          is_preassigned |-> is_preassigned]
           IN  Invoke(c, "create_library", a, create_library(a))

Call_delete_library(c) ==
    /\ pc[c] = "idle"
    /\ \E b \in BaseArgs, server_name \in GivenServerNames, library_name \in LibraryNames :
           LET a == b @@ [server_name |-> server_name, library_name |-> library_name]
           IN  Invoke(c, "delete_library", a, delete_library(a))

\* find_object that refuses a call without any criterion and sends nothing
Call_find_object_validating(c) ==
    /\ pc[c] = "idle"
    /\ \E b \in BaseArgs, cr \in CriteriaChoices, fl \in SearchFlags :
           LET a == b @@ cr @@ [location_recursive |-> fl[1],
                                include_associations |-> fl[2],
                                include_permissions |-> fl[3]]
           IN  IF \A k \in Criteria : a[k] = None
               THEN /\ pc' = [pc EXCEPT ![c] = "done"]
                    /\ call' = [call EXCEPT ![c] = [fn |-> "find_object", args |-> a]]
                    /\ result' = [result EXCEPT ![c] = Raise("ValueError")]
                    /\ UNCHANGED <<frame, trace, response, defaults, join>>
               ELSE Invoke(c, "find_object", a, find_object(a))

Call_find_object(c) ==
    /\ pc[c] = "idle"
    /\ \E b \in BaseArgs, cr \in CriteriaChoices, fl \in SearchFlags :
           LET a == b @@ cr @@ [location_recursive |-> fl[1],
                                include_associations |-> fl[2],
                                include_permissions |-> fl[3]]
           IN  Invoke(c, "find_object", a, find_object(a))

Call_delete_object(c) ==
    /\ pc[c] = "idle"
    /\ \E b \in BaseArgs, source_location \in Locations, source_name \in ObjectNames,
          public_type \in PublicTypes :
           LET a == b @@ [source_location |-> source_location, source_name |-> source_name,
                          public_type |-> public_type]
           IN  Invoke(c, "delete_object", a, delete_object(a))

\* make_request sending the request a second time after a failure
CompleteRetrying(c) ==
    /\ pc[c] = "waiting"
    /\ \E resp \in Outcomes :
        LET m == make_request(resp, frame[c].only_payload)
            failed == resp.kind = "error" \/ raise_for_status(resp.status)
        IN  /\ response' = [response EXCEPT ![c] = resp]
            /\ result' = [result EXCEPT ![c] = m.result]
            /\ IF failed /\ Len(SelectSeq(trace[c], LAMBDA e : e.ev = "request")) < 2
               THEN /\ trace' = [trace EXCEPT ![c] =
                                    @ \o m.prints
                                      \o <<RequestEvent(requests_request(frame[c]))>>]
                    /\ pc' = pc
               ELSE /\ trace' = [trace EXCEPT ![c] = @ \o m.prints]
                    /\ pc' = [pc EXCEPT ![c] = "done"]
    /\ UNCHANGED <<call, frame, defaults, join>>

\* make_request sending its request again for as long as it fails
CompleteLooping(c) ==
    /\ pc[c] = "waiting"
    /\ \E resp \in Outcomes :
        LET m == make_request(resp, frame[c].only_payload)
            failed == resp.kind = "error" \/ raise_for_status(resp.status)
        IN  /\ response' = [response EXCEPT ![c] = resp]
            /\ IF failed
               THEN UNCHANGED <<pc, trace, result>>
               ELSE /\ trace' = [trace EXCEPT ![c] = @ \o m.prints]
                    /\ result' = [result EXCEPT ![c] = m.result]
                    /\ pc' = [pc EXCEPT ![c] = "done"]
    /\ UNCHANGED <<call, frame, defaults, join>>

\* make_request noting the kind of its last outcome in its default dict
CompleteRecording(c) ==
    /\ pc[c] = "waiting"
    /\ \E resp \in Outcomes :
        LET m == make_request(resp, frame[c].only_payload)
        IN  /\ response' = [response EXCEPT ![c] = resp]
            /\ trace' = [trace EXCEPT ![c] = @ \o m.prints]
            /\ result' = [result EXCEPT ![c] = m.result]
            /\ defaults' = [defaults EXCEPT !.initial_params =
                                SetItem(@, "last", PyStr(<<resp.kind>>))]
    /\ pc' = [pc EXCEPT ![c] = "done"]
    /\ UNCHANGED <<call, frame, join>>

\* requests.request returns or raises and make_request runs to its end
Complete(c) ==
    /\ pc[c] = "waiting"
    /\ \E resp \in Outcomes :
        LET m == make_request(resp, frame[c].only_payload)
        IN  /\ response' = [response EXCEPT ![c] = resp]
            /\ trace' = [trace EXCEPT ![c] = @ \o m.prints]
            /\ result' = [result EXCEPT ![c] = m.result]
    /\ pc' = [pc EXCEPT ![c] = "done"]
    /\ UNCHANGED <<call, frame, defaults, join>>

\* the transport never answers: requests.request, called without a timeout, does
\* not return, and the call stays inside it
Hang(c) ==
    /\ pc[c] = "waiting"
    /\ pc' = [pc EXCEPT ![c] = "blocked"]
    /\ UNCHANGED <<call, frame, trace, response, result, defaults, join>>

\* the endpoint function hands make_request's outcome to its caller
Finish(c) ==
    /\ pc[c] = "done"
    /\ pc' = [pc EXCEPT ![c] = "idle"]
    /\ call' = [call EXCEPT ![c] = Idle]
    /\ frame' = [frame EXCEPT ![c] = NoFrame]
    /\ trace' = [trace EXCEPT ![c] = <<>>]
    /\ response' = [response EXCEPT ![c] = NoResponse]
    /\ result' = [result EXCEPT ![c] = Pending]
    /\ UNCHANGED <<defaults, join>>

NoJoin == [state |-> "unused"]

\* assemble_url applied to the base URL and endpoint drawn by InitUrl
Assemble ==
    /\ join.state = "input"
    /\ join' = [state |-> "joined", url |-> join.url, endpoint |-> join.endpoint,
                result |-> assemble_url(join.url, join.endpoint)]
    /\ UNCHANGED callVars

Init ==
    /\ pc = [c \in Callers |-> "idle"]
    /\ call = [c \in Callers |-> Idle]
    /\ frame = [c \in Callers |-> NoFrame]
    /\ trace = [c \in Callers |-> <<>>]
    /\ response = [c \in Callers |-> NoResponse]
    /\ result = [c \in Callers |-> Pending]
    /\ defaults = InitialDefaults
    /\ join = NoJoin

Next ==
    \E c \in SeqCallers :
        \/ Call_execute_command(c)
        \/ Call_get_library_list(c)
        \/ Call_get_library_info(c)
        \/ Call_get_dataset_list(c)
        \/ Call_get_dataset_info(c)
        \/ Call_retrieve_data(c)
        \/ Call_insert_data(c)
        \/ Call_replace_all_data(c)
        \/ Call_delete_dataset(c)
        \/ Call_move_object(c)
        \/ Call_get_metadata_server_config(c)
        \/ Call_get_license_info(c)
        \/ Call_get_workspace_server_list(c)
        \/ Call_get_workspace_server_config(c)
        \/ Call_get_stp_server_list(c)
        \/ Call_get_stp_server_config(c)
        \/ Call_get_user_list(c)
        \/ Call_get_configured_user_info(c)
        \/ Call_get_user_info(c)
        \/ Call_get_group_list(c)
        \/ Call_get_group_info(c)
        \/ Call_get_role_list(c)
        \/ Call_get_role_info(c)
        \/ Call_create_library(c)
        \/ Call_delete_library(c)
        \/ Call_find_object(c)
        \/ Call_delete_object(c)
        \/ Complete(c)
        \/ Finish(c)

Spec == Init /\ [][Next]_vars

NextLive ==
    \E c \in SeqCallers :
        \/ Call_get_metadata_server_config(c)
        \/ Call_get_workspace_server_list(c)
        \/ Call_create_library(c)
        \/ Call_delete_object(c)
        \/ Complete(c)
        \/ Hang(c)
        \/ Finish(c)

\* calls on a transport that may never answer; a request that is not left
\* unanswered for ever is answered in the end
SpecLive == Init /\ [][NextLive]_vars /\ \A c \in SeqCallers : WF_vars(Complete(c))

NextConc ==
    \E c \in Callers :
        \/ Call_get_metadata_server_config(c)
        \/ Call_get_workspace_server_list(c)
        \/ Complete(c)
        \/ Finish(c)

\* two callers whose invocations interleave in every order
SpecConc == Init /\ [][NextConc]_vars

\* the functions that list a collection
Listings ==
    {"get_workspace_server_list", "get_stp_server_list", "get_user_list",
     "get_group_list", "get_role_list", "get_library_list", "get_dataset_list"}

\* listing function fn applied to arguments a
ListingCall(fn, a) ==
    CASE fn = "get_workspace_server_list" -> get_workspace_server_list(a)
      [] fn = "get_stp_server_list" -> get_stp_server_list(a)
      [] fn = "get_user_list" -> get_user_list(a)
      [] fn = "get_group_list" -> get_group_list(a)
      [] fn = "get_role_list" -> get_role_list(a)
      [] fn = "get_library_list" -> get_library_list(a)
      [] fn = "get_dataset_list" -> get_dataset_list(a)

\* the program issues again, in slot 2, the listing call that has ended in slot 1
Repeat ==
    /\ pc[1] = "done"
    /\ pc[2] = "idle"
    /\ call[1].fn \in Listings
    /\ Invoke(2, call[1].fn, call[1].args, ListingCall(call[1].fn, call[1].args))

\* the unchanged server answers the repeated call: to the request it has answered
\* before it gives the answer it gave before
AnswerAgain ==
    /\ pc[2] = "waiting"
    /\ \E resp \in Outcomes :
        LET m == make_request(resp, frame[2].only_payload)
        IN  /\ requests_request(frame[2]) = requests_request(frame[1]) => resp = response[1]
            /\ response' = [response EXCEPT ![2] = resp]
            /\ trace' = [trace EXCEPT ![2] = @ \o m.prints]
            /\ result' = [result EXCEPT ![2] = m.result]
    /\ pc' = [pc EXCEPT ![2] = "done"]
    /\ UNCHANGED <<call, frame, defaults, join>>

\* both invocations are handed back and forgotten
FinishBoth ==
    /\ pc[1] = "done"
    /\ pc[2] = "done"
    /\ pc' = [c \in Callers |-> "idle"]
    /\ call' = [c \in Callers |-> Idle]
    /\ frame' = [c \in Callers |-> NoFrame]
    /\ trace' = [c \in Callers |-> <<>>]
    /\ response' = [c \in Callers |-> NoResponse]
    /\ result' = [c \in Callers |-> Pending]
    /\ UNCHANGED <<defaults, join>>

NextIdem ==
    \/ \E c \in SeqCallers :
           \/ Call_get_workspace_server_list(c)
           \/ Call_get_stp_server_list(c)
           \/ Call_get_user_list(c)
           \/ Call_get_group_list(c)
           \/ Call_get_role_list(c)
           \/ Call_get_library_list(c)
           \/ Call_get_dataset_list(c)
           \/ Complete(c)
    \/ Repeat
    \/ AnswerAgain
    \/ FinishBoth

\* a listing call and its repetition against an unchanged server
SpecIdem == Init /\ [][NextIdem]_vars

\* endpoints that the functions pass to assemble_url
Endpoints == {<<"sas", "/">>, <<"sas", "/", "license">>, <<"sas", "/", "cmd">>}

InitUrl ==
    /\ pc = [c \in Callers |-> "idle"]
    /\ call = [c \in Callers |-> Idle]
    /\ frame = [c \in Callers |-> NoFrame]
    /\ trace = [c \in Callers |-> <<>>]
    /\ response = [c \in Callers |-> NoResponse]
    /\ result = [c \in Callers |-> Pending]
    /\ defaults = InitialDefaults
    /\ join \in {[state |-> "input", url |-> u, endpoint |-> e] :
                    u \in AnyUrls, e \in Endpoints}

NextUrl == Assemble

\* assemble_url on its own, over every base URL of at most MaxUrlLen tokens
SpecUrl == InitUrl /\ [][NextUrl]_vars

----------------------------------------------------------------------------
(* What an invocation has sent and printed *)

IsRequest(e) == e.ev = "request"

IsPrint(e) == e.ev = "print"

\* the requests caller c's invocation has handed to requests.request, in order
Requests(c) == SelectSeq(trace[c], IsRequest)

\* the lines caller c's invocation has printed, in order
Prints(c) == SelectSeq(trace[c], IsPrint)

\* the request of caller c's invocation
Sent(c) == Requests(c)[1].req

Running(c) == pc[c] # "idle"

Args(c) == call[c].args

Params(c) == Sent(c).params

HasParam(c, k) == k \in DOMAIN Params(c)

IsPrefix(p, s) == Len(p) <= Len(s) /\ SubSeq(s, 1, Len(p)) = p

\* the request's URL is the stem of the base URL, one "/", and a path
JoinedToStem(c) == IsPrefix(Stem \o <<"/">>, Sent(c).url)

\* the path of the request, relative to the base URL
Path(c) == SubSeq(Sent(c).url, Len(Stem) + 2, Len(Sent(c).url))

TargetScoped ==
    {"execute_command", "get_library_list", "get_library_info", "get_dataset_list",
     "get_dataset_info", "retrieve_data", "insert_data", "replace_all_data",
     "delete_dataset"}

OnTarget(c) == Running(c) /\ call[c].fn \in TargetScoped

PairGiven(a) == a.server_url # None /\ a.server_port # None

\* positions of the trace at which event e stands
Positions(c, e) == {i \in DOMAIN trace[c] : trace[c][i] = e}

RequestPositions(c) == {i \in DOMAIN trace[c] : IsRequest(trace[c][i])}

Printed(c, text) == \E i \in DOMAIN trace[c] : IsPrint(trace[c][i]) /\ trace[c][i].text = text

----------------------------------------------------------------------------
(* C1 *)

\* C1: for every base URL and endpoint, assemble_url's result is the endpoint
\* preceded by exactly one "/" (the token before the endpoint is "/", the one
\* before that is not), and what stands before that "/" is a prefix of the base.
C1_ExactlyOneSeparator ==
    join.state = "joined" =>
        LET r == join.result
            n == Len(r) - Len(join.endpoint)
        IN  /\ n >= 1
            /\ SubSeq(r, n + 1, Len(r)) = join.endpoint
            /\ r[n] = "/"
            /\ n >= 2 => r[n - 1] # "/"
            /\ IsPrefix(SubSeq(r, 1, n - 1), join.url)

----------------------------------------------------------------------------
(* C2 *)

\* C2: in each target-scoped function, when server_name, server_url and
\* server_port are all given, the request path starts with
\* sas/servers/<server_name>/, repositoryName is sent with the caller's value,
\* and neither serverUrl nor serverPort is sent.
C2_NameWins ==
    \A c \in Callers :
        (OnTarget(c) /\ Args(c).server_name # None /\ PairGiven(Args(c))) =>
            /\ JoinedToStem(c)
            /\ IsPrefix(<<"sas", "/", "servers", "/">> \o Args(c).server_name.s \o <<"/">>,
                        Path(c))
            /\ HasParam(c, "repositoryName")
            /\ Params(c)["repositoryName"] = Args(c).repository_name
            /\ ~HasParam(c, "serverUrl")
            /\ ~HasParam(c, "serverPort")

\* every target-scoped function has been called with all three selectors given
C2_Witness ==
    \E c \in Callers :
        /\ OnTarget(c)
        /\ call[c].fn = "retrieve_data"
        /\ Args(c).server_name = PyStr(<<"SASApp">>)
        /\ PairGiven(Args(c))
        /\ pc[c] = "done"

----------------------------------------------------------------------------
(* C3 *)

\* C3: in each target-scoped function, when server_name is None and both
\* server_url and server_port are given, the path has no servers segment and
\* serverUrl and serverPort are sent with exactly the caller's values.
C3_UrlPortBranch ==
    \A c \in Callers :
        (OnTarget(c) /\ Args(c).server_name = None /\ PairGiven(Args(c))) =>
            /\ JoinedToStem(c)
            /\ "servers" \notin Range(Path(c))
            /\ HasParam(c, "serverUrl")
            /\ Params(c)["serverUrl"] = Args(c).server_url
            /\ HasParam(c, "serverPort")
            /\ Params(c)["serverPort"] = Args(c).server_port

C3_Witness ==
    \E c \in Callers :
        /\ OnTarget(c)
        /\ call[c].fn = "delete_dataset"
        /\ Args(c).server_name = None
        /\ Args(c).server_url = PyStr(<<"sas.host">>)
        /\ Args(c).server_port = PyInt(8591)
        /\ pc[c] = "done"

----------------------------------------------------------------------------
(* C4 *)

\* C4: in each target-scoped function, when server_name is None and the
\* (server_url, server_port) pair is incomplete, the notice is printed exactly
\* once and before the request, the path has no servers segment and neither
\* serverUrl nor serverPort is sent; in the other two branches the notice is
\* never printed.
C4_DefaultBranch ==
    \A c \in Callers :
        OnTarget(c) =>
            IF Args(c).server_name = None /\ ~PairGiven(Args(c))
            THEN /\ Cardinality(Positions(c, Notice)) = 1
                 /\ \A i \in Positions(c, Notice) : \A j \in RequestPositions(c) : i < j
                 /\ RequestPositions(c) # {}
                 /\ JoinedToStem(c)
                 /\ "servers" \notin Range(Path(c))
                 /\ ~HasParam(c, "serverUrl")
                 /\ ~HasParam(c, "serverPort")
            ELSE Positions(c, Notice) = {}

C4_Witness ==
    \E c \in Callers :
        /\ OnTarget(c)
        /\ call[c].fn = "get_library_info"
        /\ Args(c).server_name = None
        /\ Args(c).server_url = PyStr(<<"sas.host">>)
        /\ Args(c).server_port = None
        /\ pc[c] = "done"

----------------------------------------------------------------------------
(* What make_request did with the response *)

Done(c) == pc[c] = "done"

GotResponse(c) == response[c].kind = "response"

\* the success range of HTTP statuses, 2xx
IsSuccessStatus(status) == 200 <= status /\ status < 300

\* the client and server error statuses, 4xx and 5xx
IsErrorStatus(status) == 400 <= status /\ status < 600

\* the body is a JSON object that has every field of keys
IsObjectWith(body, keys) ==
    body.json /\ body.value.t = "dict" /\ keys \subseteq DOMAIN body.value.d

ReportedHttpFailure(c) == Printed(c, "HTTP error occurred")

ReportedTransportFailure(c) == Printed(c, "Other error occurred")

ReportedSuccess(c) == Printed(c, "Success!")

----------------------------------------------------------------------------
(* C5 *)

----------------------------------------------------------------------------
(* C6 *)

----------------------------------------------------------------------------
(* C7 *)

\* a transport failure, an error status, or a success status whose body is
\* not a JSON object with the envelope's fields
IsFailure(c) ==
    \/ response[c].kind = "error"
    \/ /\ GotResponse(c)
       /\ \/ IsErrorStatus(response[c].status)
          \/ /\ IsSuccessStatus(response[c].status)
             /\ ~IsObjectWith(response[c].body, {"status", "error", "payload"})

\* C7: no exception escapes make_request, and each of the three failure
\* kinds is caught, printed to the console and ends with no value returned.
C7_AllFailuresCaught ==
    \A c \in Callers :
        Done(c) =>
            /\ result[c].kind # "raise"
            /\ IsFailure(c) =>
                /\ result[c] = Return(None)
                /\ \/ ReportedHttpFailure(c)
                   \/ ReportedTransportFailure(c)

----------------------------------------------------------------------------
(* C8 *)

\* C8: for every status outside 2xx make_request does not print 'Success!'
\* and returns neither the decoded body nor its payload.
C8_NonSuccessIsFailure ==
    \A c \in Callers :
        (Done(c) /\ GotResponse(c) /\ ~IsSuccessStatus(response[c].status)) =>
            /\ ~ReportedSuccess(c)
            /\ result[c].kind = "return" => result[c].value = None

----------------------------------------------------------------------------
(* C9 *)

\* C9: an invocation hands exactly one request to requests.request, whatever
\* the outcome: one request once the call is made, still one when it is done,
\* and none while the caller is idle.
C9_SingleShot ==
    \A c \in Callers :
        /\ Running(c) => Len(Requests(c)) = 1
        /\ ~Running(c) => Len(Requests(c)) = 0
        /\ Running(c) => Sent(c) = requests_request(frame[c])

\* an invocation that ended in a failure
C9_Witness ==
    \E c \in Callers :
        /\ Done(c)
        /\ GotResponse(c)
        /\ response[c].status = 500
        /\ ~response[c].body.json
        /\ Len(Requests(c)) = 1

----------------------------------------------------------------------------
(* C10 *)

\* C10: move_object POSTs to sas/meta/objects/move with destinationLocation =
\* the public_type argument and publicType = the destination_location
\* argument, and with sourceLocation, sourceName and repositoryName carrying
\* their own arguments.
C10_MoveSwap ==
    \A c \in Callers :
        (Running(c) /\ call[c].fn = "move_object") =>
            /\ Sent(c).method = "POST"
            /\ JoinedToStem(c)
            /\ Path(c) = <<"sas", "/", "meta", "/", "objects", "/", "move">>
            /\ DOMAIN Params(c) = {"sourceLocation", "sourceName", "destinationLocation",
                                   "publicType", "repositoryName"}
            /\ Params(c)["destinationLocation"] = Args(c).public_type
            /\ Params(c)["publicType"] = Args(c).destination_location
            /\ Params(c)["sourceLocation"] = Args(c).source_location
            /\ Params(c)["sourceName"] = Args(c).source_name
            /\ Params(c)["repositoryName"] = Args(c).repository_name

\* source_location="/a", source_name="x", public_type="Table", destination_location="/b"
C10_Witness ==
    \E c \in Callers :
        /\ Running(c)
        /\ call[c].fn = "move_object"
        /\ Args(c).source_location = PyStr(<<"/a">>)
        /\ Args(c).source_name = PyStr(<<"x">>)
        /\ Args(c).public_type = PyStr(<<"Table">>)
        /\ Args(c).destination_location = PyStr(<<"/b">>)
        /\ Params(c)["destinationLocation"] = PyStr(<<"Table">>)
        /\ Params(c)["publicType"] = PyStr(<<"/b">>)

----------------------------------------------------------------------------
(* C11: parameters that are None *)

\* the query string of the request of caller c's invocation
Query(c) == PreparedParams(Params(c))

\* the name under which find_object sends each criterion
WireName(k) ==
    CASE k = "location" -> "location"
      [] k = "object_id" -> "objectID"
      [] k = "object_type" -> "objectType"
      [] k = "public_type" -> "publicType"
      [] k = "name_equals" -> "nameEquals"
      [] k = "name_starts" -> "nameStarts"
      [] k = "name_contains" -> "nameContains"
      [] k = "name_regex" -> "nameRegex"
      [] k = "description_contains" -> "descriptionContains"
      [] k = "description_regex" -> "descriptionRegex"
      [] k = "created_gt" -> "createdGt"
      [] k = "created_lt" -> "createdLt"
      [] k = "modified_gt" -> "modifiedGt"
      [] k = "modified_lt" -> "modifiedLt"
      [] k = "table_libref" -> "tableLibref"
      [] k = "table_dbms" -> "tableDBMS"

----------------------------------------------------------------------------
(* C12: independence of concurrent invocations *)

\* C12: with the invocations of several callers interleaved in any order, no call
\* changes the state the calls share, two calls of the same function on the same
\* arguments send the same request whatever ran in between, and the value a call
\* returns is the one make_request computes from the response to its own request.
C12_Independence ==
    /\ defaults = InitialDefaults
    /\ \A c, d \in Callers :
           (Running(c) /\ Running(d) /\ call[c].fn = call[d].fn /\ Args(c) = Args(d)) =>
               /\ Sent(c) = Sent(d)
               /\ frame[c] = frame[d]
    /\ \A c \in Callers :
           Running(c) =>
               /\ Len(Requests(c)) = 1
               /\ Sent(c) = requests_request(frame[c])
               /\ frame[c].only_payload = Args(c).only_payload
               /\ Done(c) =>
                      /\ result[c] = make_request(response[c], Args(c).only_payload).result
                      /\ Prints(c) = make_request(response[c], Args(c).only_payload).prints

\* caller 2 has got its answer while the request of caller 1, made by another
\* function, is still in flight
C12_Witness ==
    /\ pc[1] = "waiting"
    /\ call[1].fn = "get_workspace_server_list"
    /\ Done(2)
    /\ call[2].fn = "get_metadata_server_config"
    /\ Sent(1).params # Sent(2).params
    /\ result[2].kind = "return"

----------------------------------------------------------------------------
(* C13: idempotence of listing *)

----------------------------------------------------------------------------
(* C14: the documented default of only_payload *)

\* the functions whose docstring gives True as the default of only_payload
DocumentedTruncating ==
    {"get_workspace_server_list", "get_workspace_server_config", "get_stp_server_list",
     "get_stp_server_config", "execute_command", "get_user_list",
     "get_configured_user_info", "get_user_info", "get_group_list", "get_group_info",
     "get_role_list", "get_role_info", "get_library_list", "get_library_info",
     "create_library", "delete_library", "get_dataset_list", "get_dataset_info",
     "retrieve_data", "insert_data", "replace_all_data", "delete_dataset", "find_object",
     "move_object", "delete_object"}

\* C14: a successful call of a function documented with only_payload's default as
\* True, made without passing only_payload, returns only the payload of the
\* response.
C14_DocumentedDefault ==
    \A c \in Callers :
        (/\ Done(c)
         /\ call[c].fn \in DocumentedTruncating
         /\ "only_payload" \notin Args(c).passed
         /\ GotResponse(c)
         /\ IsSuccessStatus(response[c].status)
         /\ IsObjectWith(response[c].body, {"status", "error", "payload"})) =>
            result[c] = Return(response[c].body.value.d["payload"])

----------------------------------------------------------------------------
(* C15: list and get by name *)

\* the functions that list a catalog or get one of its entries by name
ListOrGet ==
    {"get_workspace_server_list", "get_workspace_server_config", "get_stp_server_list",
     "get_stp_server_config", "get_user_list", "get_configured_user_info",
     "get_user_info", "get_group_list", "get_group_info", "get_role_list",
     "get_role_info"}

\* the catalog path of each of them, with the name appended for the by-name variants
CatalogPath(fn, a) ==
    CASE fn = "get_workspace_server_list" -> <<"sas", "/", "servers">>
      [] fn = "get_workspace_server_config" -> <<"sas", "/", "servers", "/">> \o a.server_name.s
      [] fn = "get_stp_server_list" -> <<"sas", "/", "stp">>
      [] fn = "get_stp_server_config" -> <<"sas", "/", "stp", "/">> \o a.server_name.s
      [] fn = "get_user_list" -> <<"sas", "/", "meta", "/", "users">>
      [] fn = "get_configured_user_info" -> <<"sas", "/", "user">>
      [] fn = "get_user_info" -> <<"sas", "/", "meta", "/", "users", "/">> \o a.user_name.s
      [] fn = "get_group_list" -> <<"sas", "/", "meta", "/", "groups">>
      [] fn = "get_group_info" -> <<"sas", "/", "meta", "/", "groups", "/">> \o a.group_name.s
      [] fn = "get_role_list" -> <<"sas", "/", "meta", "/", "roles">>
      [] fn = "get_role_info" -> <<"sas", "/", "meta", "/", "roles", "/">> \o a.role_name.s

\* C15: each list or get-by-name function sends a GET to its catalog path, the name
\* appended for the by-name variants, with exactly one query parameter,
\* repositoryName, equal to the repository_name argument.
C15_ListOrGetByName ==
    \A c \in Callers :
        (Running(c) /\ call[c].fn \in ListOrGet) =>
            /\ Sent(c).method = "GET"
            /\ JoinedToStem(c)
            /\ Path(c) = CatalogPath(call[c].fn, Args(c))
            /\ DOMAIN Params(c) = {"repositoryName"}
            /\ Params(c)["repositoryName"] = Args(c).repository_name

\* get_user_info is running on a repository other than the default one
C15_Witness ==
    \E c \in Callers :
        /\ Running(c)
        /\ call[c].fn = "get_user_info"
        /\ Args(c).repository_name = PyStr(<<"Custom">>)
        /\ Path(c) = <<"sas", "/", "meta", "/", "users", "/">> \o Args(c).user_name.s
        /\ Params(c)["repositoryName"] = PyStr(<<"Custom">>)

----------------------------------------------------------------------------
(* C16: HTTP methods *)

\* the HTTP method of each endpoint function
ExpectedMethod(fn) ==
    CASE fn = "execute_command" -> "PUT"
      [] fn = "create_library" -> "POST"
      [] fn = "delete_library" -> "DELETE"
      [] fn = "insert_data" -> "PUT"
      [] fn = "replace_all_data" -> "POST"
      [] fn = "delete_dataset" -> "DELETE"
      [] fn = "move_object" -> "POST"
      [] fn = "delete_object" -> "POST"
      [] OTHER -> "GET"

\* C16: whatever its arguments and whichever branch of the target selector is
\* taken, each endpoint function sends its request with its own fixed HTTP method.
C16_FixedMethod ==
    \A c \in Callers :
        Running(c) => /\ frame[c].method = ExpectedMethod(call[c].fn)
                      /\ Sent(c).method = ExpectedMethod(call[c].fn)

\* insert_data is running on the server given by URL and port, and has sent a PUT
C16_Witness ==
    \E c \in Callers :
        /\ Running(c)
        /\ call[c].fn = "insert_data"
        /\ Args(c).server_name = None
        /\ PairGiven(Args(c))
        /\ HasParam(c, "serverUrl")
        /\ Sent(c).method = "PUT"

----------------------------------------------------------------------------
(* C17: request bodies *)

\* C17: insert_data and replace_all_data hand the caller's json_data over unchanged
\* as the JSON body and hand over no raw body; execute_command hands the command
\* over unchanged as the raw body; every other function hands over only the
\* defaults of make_request, nothing of its caller's.
C17_Bodies ==
    \A c \in Callers :
        Running(c) =>
            CASE call[c].fn \in {"insert_data", "replace_all_data"} ->
                    /\ Sent(c).json = Args(c).json_data
                    /\ Sent(c).data = PyStr(<<>>)
              [] call[c].fn = "execute_command" ->
                    /\ Sent(c).data = Args(c).command
                    /\ Sent(c).json = InitialDefaults.json_data
              [] OTHER ->
                    /\ Sent(c).data = PyStr(<<>>)
                    /\ Sent(c).json = InitialDefaults.json_data

\* replace_all_data is running and has handed one record over as the JSON body
C17_Witness ==
    \E c \in Callers :
        /\ Running(c)
        /\ call[c].fn = "replace_all_data"
        /\ Args(c).json_data = PyList(<<Record1>>)
        /\ Sent(c).json = PyList(<<Record1>>)
        /\ Sent(c).data = PyStr(<<>>)

----------------------------------------------------------------------------
(* C18: the search is not validated *)

\* C18: for every combination of arguments, the one without any criterion
\* included, find_object sends one GET to sas/meta/search; no call ends without
\* its request.
C18_SearchNotValidated ==
    \A c \in Callers :
        (Running(c) /\ call[c].fn = "find_object") =>
            /\ Len(Requests(c)) = 1
            /\ Sent(c).method = "GET"
            /\ JoinedToStem(c)
            /\ Path(c) = <<"sas", "/", "meta", "/", "search">>
            /\ pc[c] = "waiting" => result[c] = Pending

\* find_object has sent its request though no criterion was given
C18_Witness ==
    \E c \in Callers :
        /\ Running(c)
        /\ call[c].fn = "find_object"
        /\ \A k \in Criteria : Args(c)[k] = None
        /\ Len(Requests(c)) = 1
        /\ Path(c) = <<"sas", "/", "meta", "/", "search">>

----------------------------------------------------------------------------
(* C19: the default repository name *)

\* C19: whenever a request carries repositoryName, its value is 'Foundation' if the
\* caller did not pass repository_name and the value the caller passed otherwise;
\* the functions outside the target selector always carry it.
C19_DefaultRepository ==
    \A c \in Callers :
        Running(c) =>
            /\ HasParam(c, "repositoryName") =>
                   Params(c)["repositoryName"] =
                       IF "repository_name" \in Args(c).passed
                       THEN Args(c).repository_name
                       ELSE PyStr(<<"Foundation">>)
            /\ ("repository_name" \in DOMAIN Args(c) /\ call[c].fn \notin TargetScoped) =>
                   HasParam(c, "repositoryName")

\* delete_library, called without repository_name, has sent repositoryName='Foundation'
C19_Witness ==
    \E c \in Callers :
        /\ Running(c)
        /\ call[c].fn = "delete_library"
        /\ "repository_name" \notin Args(c).passed
        /\ Params(c)["repositoryName"] = PyStr(<<"Foundation">>)

----------------------------------------------------------------------------
(* C20: success and failure have the same return value *)

\* the invocation ended in a failure that one of the two handlers of make_request
\* caught and handled to its end
CaughtFailure(c) ==
    /\ Done(c)
    /\ \/ response[c].kind = "error"
       \/ /\ GotResponse(c)
          /\ IsErrorStatus(response[c].status)
          /\ IsObjectWith(response[c].body, {"error"})

\* the invocation, called with only_payload=True, ended in a success response
\* whose payload is null
NullSuccess(c) ==
    /\ Done(c)
    /\ GotResponse(c)
    /\ IsSuccessStatus(response[c].status)
    /\ IsObjectWith(response[c].body, {"payload"})
    /\ response[c].body.value.d["payload"] = None
    /\ Args(c).only_payload

\* C20: every failure that make_request catches returns None, and so does a success
\* whose payload is null under only_payload=True: the return values of such a
\* failed run and such a successful run are the same.
C20_Indistinguishable ==
    /\ \A c \in Callers : CaughtFailure(c) => result[c] = Return(None)
    /\ \A c, d \in Callers : (CaughtFailure(c) /\ NullSuccess(d)) => result[d] = result[c]

\* two runs of the same call, one failed and one successful, have returned the
\* same value
C20_Witness ==
    /\ call[1] = call[2]
    /\ CaughtFailure(1)
    /\ ReportedHttpFailure(1)
    /\ NullSuccess(2)
    /\ ReportedSuccess(2)
    /\ result[1] = result[2]
    /\ result[2] = Return(None)

----------------------------------------------------------------------------
(* C21: the exceptions that escape make_request *)

\* the three cases in which an exception is said to escape: an error status whose
\* body is not a JSON object with an error field, a success status whose body is
\* not JSON, a success status under only_payload=True whose body has no payload
EscapeCase(c) ==
    /\ GotResponse(c)
    /\ \/ /\ IsErrorStatus(response[c].status)
          /\ ~IsObjectWith(response[c].body, {"error"})
       \/ /\ IsSuccessStatus(response[c].status)
          /\ ~response[c].body.json
       \/ /\ IsSuccessStatus(response[c].status)
          /\ Args(c).only_payload
          /\ ~IsObjectWith(response[c].body, {"payload"})

----------------------------------------------------------------------------
(* C22: an incomplete url/port pair *)

\* exactly one of server_url and server_port is given
HalfPair(a) == (a.server_url # None) # (a.server_port # None)

\* C22: in each target-scoped function, when server_name is not given and exactly
\* one of server_url and server_port is given, the notice is printed before the
\* request and neither serverUrl nor serverPort is sent.
C22_HalfPairDropped ==
    \A c \in Callers :
        (OnTarget(c) /\ Args(c).server_name = None /\ HalfPair(Args(c))) =>
            /\ Printed(c, Notice.text)
            /\ \A i \in Positions(c, Notice) : \A j \in RequestPositions(c) : i < j
            /\ Len(Requests(c)) = 1
            /\ "serverUrl" \notin DOMAIN Params(c)
            /\ "serverPort" \notin DOMAIN Params(c)
            /\ "servers" \notin Range(Path(c))

\* get_dataset_list is running with a port and no URL, and has sent no parameter
C22_Witness ==
    \E c \in Callers :
        /\ OnTarget(c)
        /\ call[c].fn = "get_dataset_list"
        /\ Args(c).server_name = None
        /\ Args(c).server_url = None
        /\ Args(c).server_port = PyInt(8591)
        /\ Printed(c, Notice.text)
        /\ DOMAIN Params(c) = {}

----------------------------------------------------------------------------
(* C23: repositoryName and the target selector *)

\* C23: a target-scoped function sends repositoryName if and only if server_name
\* is given; in the url/port branch and in the default branch none is sent,
\* whatever repository_name the caller passes.
C23_RepositoryOnlyByName ==
    \A c \in Callers :
        OnTarget(c) =>
            /\ HasParam(c, "repositoryName") <=> Args(c).server_name # None
            /\ Args(c).server_name = None =>
                   \A k \in DOMAIN Params(c) : Params(c)[k] # Args(c).repository_name

\* get_dataset_info, called on a URL and port with repository 'Custom', has sent no
\* repositoryName
C23_Witness ==
    \E c \in Callers :
        /\ OnTarget(c)
        /\ call[c].fn = "get_dataset_info"
        /\ Args(c).server_name = None
        /\ PairGiven(Args(c))
        /\ "repository_name" \in Args(c).passed
        /\ Args(c).repository_name = PyStr(<<"Custom">>)
        /\ ~HasParam(c, "repositoryName")
        /\ HasParam(c, "serverUrl")

----------------------------------------------------------------------------
(* C24: presence is tested by 'is not None' *)

\* C24: an empty server_name still selects the server-scoped branch, giving a path
\* with an empty name segment, and a server_port of 0 or an empty server_url with a
\* partner that is not None still selects the url/port branch.
C24_PresenceNotTruth ==
    \A c \in Callers :
        OnTarget(c) =>
            /\ Args(c).server_name = PyStr(<<>>) =>
                   /\ IsPrefix(<<"sas", "/", "servers", "/", "/">>, Path(c))
                   /\ HasParam(c, "repositoryName")
                   /\ ~HasParam(c, "serverUrl")
                   /\ Positions(c, Notice) = {}
            /\ (/\ Args(c).server_name = None
                /\ PairGiven(Args(c))
                /\ \/ Args(c).server_port = PyInt(0)
                   \/ Args(c).server_url = PyStr(<<>>)) =>
                   /\ HasParam(c, "serverUrl")
                   /\ HasParam(c, "serverPort")
                   /\ Params(c)["serverUrl"] = Args(c).server_url
                   /\ Params(c)["serverPort"] = Args(c).server_port
                   /\ "servers" \notin Range(Path(c))
                   /\ Positions(c, Notice) = {}

\* get_library_info, called with server_url '' and server_port 0, has sent both
C24_Witness ==
    \E c \in Callers :
        /\ OnTarget(c)
        /\ call[c].fn = "get_library_info"
        /\ Args(c).server_name = None
        /\ Args(c).server_url = PyStr(<<>>)
        /\ Args(c).server_port = PyInt(0)
        /\ Params(c)["serverPort"] = PyInt(0)
        /\ Params(c)["serverUrl"] = PyStr(<<>>)

----------------------------------------------------------------------------
(* C25: the parameters of a function survive the target selector *)

\* C25: in every branch of the target selector retrieve_data sends limit and offset
\* with the values it was called with (100 and 0 when they are left out, any other
\* value unchanged) and sends filter exactly when filter_ is not None, insert_data
\* sends byKey exactly when by_key is not None, and execute_command sends logEnabled.
C25_OwnParametersSurvive ==
    \A c \in Callers :
        Running(c) =>
            /\ call[c].fn = "retrieve_data" =>
                   /\ HasParam(c, "limit")
                   /\ HasParam(c, "offset")
                   /\ Params(c)["limit"] = Args(c).limit
                   /\ Params(c)["offset"] = Args(c).offset
                   /\ "limit" \notin Args(c).passed => Params(c)["limit"] = PyInt(100)
                   /\ "offset" \notin Args(c).passed => Params(c)["offset"] = PyInt(0)
                   /\ HasParam(c, "filter") <=> Args(c).filter_ # None
                   /\ HasParam(c, "filter") => Params(c)["filter"] = Args(c).filter_
            /\ call[c].fn = "insert_data" =>
                   /\ HasParam(c, "byKey") <=> Args(c).by_key # None
                   /\ HasParam(c, "byKey") => Params(c)["byKey"] = Args(c).by_key
            /\ call[c].fn = "execute_command" => HasParam(c, "logEnabled")

\* retrieve_data, addressed by server name, has sent a limit above the documented
\* maximum and a filter
C25_Witness ==
    \E c \in Callers :
        /\ Running(c)
        /\ call[c].fn = "retrieve_data"
        /\ Args(c).server_name # None
        /\ Args(c).filter_ # None
        /\ Params(c)["limit"] = PyInt(20000)
        /\ HasParam(c, "filter")
        /\ HasParam(c, "repositoryName")

----------------------------------------------------------------------------
(* C26: boolean flags *)

\* the lower-case text of a flag
LowerCase(b) == IF b THEN PyStr(<<"true">>) ELSE PyStr(<<"false">>)

\* C26: execute_command sends logEnabled as 'true' or 'false' according to
\* log_enabled; create_library sends isPreassigned as 'true' or 'false' according to
\* is_preassigned, together with engine, displayName, path, location and
\* repositoryName, to sas/servers/<server_name>/libraries/<library_name>.
C26_LowerCaseFlags ==
    \A c \in Callers :
        Running(c) =>
            /\ call[c].fn = "execute_command" =>
                   /\ HasParam(c, "logEnabled")
                   /\ Params(c)["logEnabled"] = LowerCase(Args(c).log_enabled)
                   /\ Query(c)["logEnabled"] = LowerCase(Args(c).log_enabled).s
            /\ call[c].fn = "create_library" =>
                   /\ DOMAIN Params(c) = {"engine", "displayName", "path", "location",
                                          "repositoryName", "isPreassigned"}
                   /\ Params(c)["isPreassigned"] = LowerCase(Args(c).is_preassigned)
                   /\ Query(c)["isPreassigned"] = LowerCase(Args(c).is_preassigned).s
                   /\ Params(c)["engine"] = Args(c).engine
                   /\ Params(c)["displayName"] = Args(c).display_name
                   /\ Params(c)["path"] = Args(c).path
                   /\ Params(c)["location"] = Args(c).location
                   /\ Params(c)["repositoryName"] = Args(c).repository_name
                   /\ JoinedToStem(c)
                   /\ Path(c) = <<"sas", "/", "servers", "/">> \o Args(c).server_name.s
                                    \o <<"/", "libraries", "/">> \o Args(c).library_name.s

\* create_library has been called with is_preassigned=True and has sent 'true'
C26_Witness ==
    \E c \in Callers :
        /\ Running(c)
        /\ call[c].fn = "create_library"
        /\ Args(c).is_preassigned
        /\ Query(c)["isPreassigned"] = <<"true">>

----------------------------------------------------------------------------
(* C27: the four data functions address one URL *)

DataFunctions == {"retrieve_data", "insert_data", "replace_all_data", "delete_dataset"}

\* the parameters of the request that the target selector sets
SelectorParams(c) ==
    [k \in DOMAIN Params(c) \cap {"repositoryName", "serverUrl", "serverPort"} |->
        Params(c)[k]]

\* C27: on the same library, dataset and target selector arguments retrieve_data,
\* insert_data, replace_all_data and delete_dataset send their requests to one and
\* the same URL, which ends in /datasets/<dataset_name>/data, with the same
\* selector parameters and with the methods GET, PUT, POST and DELETE; that URL is
\* not the one get_dataset_info addresses.
C27_SameDataUrl ==
    \A c \in Callers :
        (Running(c) /\ call[c].fn \in DataFunctions) =>
            LET n == Len(Sent(c).url)
            IN  /\ Sent(c).url = delete_dataset(Args(c)).call.url
                /\ Sent(c).url = retrieve_data(Args(c) @@ [limit |-> RetrieveDefaults.limit,
                                                           offset |-> RetrieveDefaults.offset,
                                                           filter_ |-> None]).call.url
                /\ SelectorParams(c) = delete_dataset(Args(c)).call.initial_params
                /\ SubSeq(Sent(c).url, n - 5, n) =
                       <<"/", "datasets", "/">> \o Args(c).dataset_name.s \o <<"/", "data">>
                /\ Sent(c).url # get_dataset_info(Args(c)).call.url
                /\ Sent(c).method =
                       CASE call[c].fn = "retrieve_data" -> "GET"
                         [] call[c].fn = "insert_data" -> "PUT"
                         [] call[c].fn = "replace_all_data" -> "POST"
                         [] call[c].fn = "delete_dataset" -> "DELETE"

\* delete_dataset, addressed by server name, has sent DELETE to the data path
C27_Witness ==
    \E c \in Callers :
        /\ Running(c)
        /\ call[c].fn = "delete_dataset"
        /\ Args(c).server_name = PyStr(<<"SASApp">>)
        /\ Sent(c).method = "DELETE"
        /\ Sent(c).url[Len(Sent(c).url)] = "data"
        /\ Sent(c).url = insert_data(Args(c) @@ [json_data |-> PyList(<<>>),
                                                 by_key |-> None]).call.url

----------------------------------------------------------------------------
(* C28: nothing leaks through defaults or arguments *)

\* the functions that leave initial_params to the default of make_request
OnDefaults == {"get_metadata_server_config", "get_license_info"}

\* C28: after any sequence of calls the default dict and the default list of
\* make_request are still empty, a call that relies on the defaults sends no query
\* parameter, and the list a caller passes as json_data is handed on as it was
\* passed.
C28_NoLeak ==
    /\ defaults = InitialDefaults
    /\ DOMAIN defaults.initial_params = {}
    /\ defaults.json_data = PyList(<<>>)
    /\ \A c \in Callers :
           Running(c) =>
               /\ call[c].fn \in OnDefaults =>
                      /\ DOMAIN Params(c) = {}
                      /\ DOMAIN Query(c) = {}
               /\ IF "json_data" \in DOMAIN Args(c)
                  THEN Sent(c).json = Args(c).json_data
                  ELSE Sent(c).json = PyList(<<>>)

\* get_license_info has ended, having sent the default dict, still empty, as its
\* parameters
C28_Witness ==
    \E c \in Callers :
        /\ Done(c)
        /\ call[c].fn = "get_license_info"
        /\ frame[c].initial_params = defaults.initial_params
        /\ DOMAIN Params(c) = {}
        /\ result[c].kind = "return"

----------------------------------------------------------------------------
(* C29: termination *)

\* C29: a call ends only with the outcome of its one request; if the transport
\* never leaves a request unanswered for ever, every call that has sent its request
\* ends; and a call whose request is never answered stays blocked for ever.
C29_Termination ==
    /\ [](\A c \in SeqCallers : Done(c) => /\ response[c] # NoResponse
                                           /\ Len(Requests(c)) = 1)
    /\ \A c \in SeqCallers :
           [](pc[c] # "blocked") => (pc[c] = "waiting" ~> Done(c))
    /\ \A c \in SeqCallers : [](pc[c] = "blocked" => [](pc[c] = "blocked"))

\* a call is blocked inside its request, which will never be answered
C29_Witness ==
    \E c \in SeqCallers :
        /\ pc[c] = "blocked"
        /\ Len(Requests(c)) = 1
        /\ response[c] = NoResponse
        /\ result[c] = Pending

====
